---- MODULE Spec2Model ----
(***************************************************************************)
(* Model of the retrieval layer of the ADAS diagnostics assistant:         *)
(* AutomotiveTools.hybrid_search (src/agent/tools.py) over the document    *)
(* store written through DocumentRepository / ChunkRepository              *)
(* (src/agent/db_utils.py), with the process-wide DatabaseManager.         *)
(*                                                                         *)
(* Text is modelled character by character: a Python str or an SQL text    *)
(* value is a sequence of one-character strings, so that lower(), split(), *)
(* strip() and LIKE are computed, not assumed.                             *)
(*                                                                         *)
(* The vector path (ChunkRepository.vector_search) and the graph reads of  *)
(* AutomotiveGraphRepository (src/agent/graph_utils.py) are modelled over  *)
(* the same state; StoreSpec and GraphSpec are the specifications of the   *)
(* two.                                                                    *)
(***************************************************************************)
EXTENDS Integers, Sequences, FiniteSets, TLC

VARIABLES
    documents,         \* rows of table documents
    chunks,            \* rows of table chunks
    db_manager,        \* module global db_utils.db_manager: "None" or "manager"
    pool,              \* DatabaseManager._pool of the process's manager object
    tools_db_manager,  \* AutomotiveTools.db_manager / chunk_repo / doc_repo
    nodes,             \* nodes of the graph store
    edges,             \* relationships of the graph store
    graph_manager,     \* module global graph_utils.graph_manager
    driver,            \* GraphManager.driver of the process's manager object
    pipeline,          \* the IngestionPipeline.process_file call in progress
    deletion,          \* the DocumentRepository.delete_document call in progress
    messages,          \* rows of table messages of one session, as inserted
    requests,          \* the POST /chat handlers in progress
    embedding,         \* the _generate_batch_embeddings call in progress
    response           \* value returned by the most recent operation

vars ==
    << documents, chunks, db_manager, pool, tools_db_manager,
       nodes, edges, graph_manager, driver,
       pipeline, deletion, messages, requests, embedding, response >>

\* the graph store and the process's handle on it
graph_vars == << nodes, edges, graph_manager, driver >>

\* the calls in progress of the ingestion side, the chat endpoint and the
\* embedding service, and the chat history
service_vars == << pipeline, deletion, messages, requests, embedding >>

----------------------------------------------------------------------------
(* Bounds of the model *)

\* created_at timestamps range over 0..MaxClock
MaxClock == 1
\* max_results of a request ranges over -1..MaxResultsBound
MaxResultsBound == 3

----------------------------------------------------------------------------
(* Text primitives *)

\* SQL NULL / Python None for a text value: a one-element sequence whose
\* element is no character, so that it differs from every text.
NullText == << "<null>" >>
\* SQL NULL / Python None for an enumeration-valued column
NULL == "NULL"

IsNullText(s) == s = NullText

UpperChars == << "A", "B", "C", "D", "E", "F", "G", "H", "I", "J", "K", "L", "M", "N", "O", "P", "Q", "R", "S", "T", "U", "V", "W", "X", "Y", "Z" >>
LowerChars == << "a", "b", "c", "d", "e", "f", "g", "h", "i", "j", "k", "l", "m", "n", "o", "p", "q", "r", "s", "t", "u", "v", "w", "x", "y", "z" >>

\* str.lower() / SQL LOWER() on one ASCII character
LowerChar(c) ==
    IF \E i \in DOMAIN UpperChars : UpperChars[i] = c
    THEN LowerChars[CHOOSE i \in DOMAIN UpperChars : UpperChars[i] = c]
    ELSE c

\* str.lower() / SQL LOWER() on a text
Lower(s) == [ i \in 1..Len(s) |-> LowerChar(s[i]) ]

\* the characters str.split() with no argument separates on
Whitespace == { " ", "\t", "\n" }

RECURSIVE SplitFrom(_, _, _)
\* s: text, i: next position, cur: token being read
SplitFrom(s, i, cur) ==
    IF i > Len(s)
    THEN IF cur = << >> THEN << >> ELSE << cur >>
    ELSE IF s[i] \in Whitespace
         THEN IF cur = << >>
              THEN SplitFrom(s, i + 1, << >>)
              ELSE << cur >> \o SplitFrom(s, i + 1, << >>)
         ELSE SplitFrom(s, i + 1, Append(cur, s[i]))

\* str.split(): maximal runs of non-whitespace characters, in order
Split(s) == SplitFrom(s, 1, << >>)

\* the argument of term.strip('.,!?')
StripChars == { ".", ",", "!", "?" }

RECURSIVE LStrip(_)
LStrip(s) ==
    IF s # << >> /\ Head(s) \in StripChars THEN LStrip(Tail(s)) ELSE s

RECURSIVE RStrip(_)
RStrip(s) ==
    IF s # << >> /\ s[Len(s)] \in StripChars
    THEN RStrip(SubSeq(s, 1, Len(s) - 1))
    ELSE s

\* str.strip('.,!?'): removes the characters at both ends
Strip(s) == RStrip(LStrip(s))

\* t occurs in s as a contiguous substring
Contains(s, t) ==
    \E i \in 1..(Len(s) - Len(t) + 1) : SubSeq(s, i, i + Len(t) - 1) = t

RECURSIVE LikeFrom(_, _, _, _)
\* PostgreSQL LIKE with the default escape character: '%' matches any
\* run of characters, '_' any one character, '\' quotes the next one.
LikeFrom(s, i, p, j) ==
    IF j > Len(p) THEN i > Len(s)
    ELSE IF p[j] = "%"
         THEN \E k \in i..(Len(s) + 1) : LikeFrom(s, k, p, j + 1)
    ELSE IF p[j] = "_"
         THEN i <= Len(s) /\ LikeFrom(s, i + 1, p, j + 1)
    ELSE IF p[j] = "\\" /\ j < Len(p)
         THEN i <= Len(s) /\ s[i] = p[j + 1] /\ LikeFrom(s, i + 1, p, j + 2)
    ELSE i <= Len(s) /\ s[i] = p[j] /\ LikeFrom(s, i + 1, p, j + 1)

\* s LIKE p is TRUE. A NULL operand gives NULL, which a WHERE clause and
\* a CASE WHEN treat as not true.
Like(s, p) == ~IsNullText(s) /\ LikeFrom(s, 1, p, 1)

----------------------------------------------------------------------------
(* Lexical query builder: AutomotiveTools.hybrid_search, term filtering *)

stop_words == {
    << "w", "h", "a", "t" >>, << "i", "s" >>, << "t", "h", "e" >>, << "a" >>,
    << "a", "n" >>, << "a", "n", "d" >>, << "o", "r" >>, << "b", "u", "t" >>,
    << "i", "n" >>, << "o", "n" >>, << "a", "t" >>, << "t", "o" >>,
    << "f", "o", "r" >>, << "o", "f" >>, << "w", "i", "t", "h" >>,
    << "b", "y" >>, << "h", "o", "w" >>, << "w", "h", "y" >>,
    << "w", "h", "e", "n" >>, << "w", "h", "e", "r", "e" >>,
    << "w", "h", "o" >>, << "w", "h", "i", "c", "h" >>,
    << "t", "h", "a", "t" >>, << "t", "h", "i", "s" >>,
    << "t", "h", "e", "s", "e" >>, << "t", "h", "o", "s", "e" >>,
    << "?" >>, << "." >>, << "," >>, << "!" >> }

important_terms == {
    << "u", "n", "i", "t" >>, << "s", "y", "s", "t", "e", "m" >>,
    << "m", "o", "d", "u", "l", "e" >>,
    << "c", "o", "m", "p", "o", "n", "e", "n", "t" >>,
    << "p", "a", "r", "t" >>, << "s", "e", "n", "s", "o", "r" >>,
    << "c", "a", "m", "e", "r", "a" >>,
    << "p", "r", "i", "m", "a", "r", "y" >>,
    << "s", "e", "c", "o", "n", "d", "a", "r", "y" >> }

\* KeepTerm as src/test_sql.py writes the filter: stop words out, length > 2
KeepTermTestSql(clean_term) ==
    clean_term \notin stop_words /\ Len(clean_term) > 2

\* the two nested ifs that decide whether clean_term is appended
KeepTerm(clean_term) ==
    /\ \/ clean_term \in important_terms
       \/ clean_term \notin stop_words
       \/ Len(clean_term) > 3
    /\ Len(clean_term) > 1

RECURSIVE FilterTerms(_)
\* the loop over query.query.lower().split(), appending the kept terms
FilterTerms(tokens) ==
    IF tokens = << >> THEN << >>
    ELSE LET clean_term == Strip(Head(tokens))
         IN  (IF KeepTerm(clean_term) THEN << clean_term >> ELSE << >>)
                 \o FilterTerms(Tail(tokens))

\* search_terms of hybrid_search for the query text
SearchTerms(text) == FilterTerms(Split(Lower(text)))

\* search_values entry of a term: f"%{term}%"
Pattern(term) == << "%" >> \o term \o << "%" >>

----------------------------------------------------------------------------
(* The caller issues one operation at a time (one logical request per     *)
(* turn): an operation starts when no returned value is pending, and the  *)
(* caller takes the returned value before the next operation.             *)

NoResponse == [ op |-> "none" ]

\* no call in progress
NoCall == [ pc |-> "idle" ]

\* the POST /chat requests of a run: two, which may overlap
RequestIds == { 1, 2 }

\* no ingestion, deletion, chat request or embedding call in progress and
\* an empty chat history
ServicesAtRest ==
    /\ pipeline = [ pc |-> "idle", runs |-> 0 ]
    /\ deletion = NoCall
    /\ messages = << >>
    /\ requests = [ r \in RequestIds |-> NoCall ]
    /\ embedding = NoCall

Idle == response.op = "none"

Return ==
    /\ ~Idle
    /\ response' = NoResponse
    /\ UNCHANGED << documents, chunks, db_manager, pool, tools_db_manager, graph_vars, service_vars >>

----------------------------------------------------------------------------
(* The corpus: the files the ingestion side stores, and what it stores     *)
(* for each (DocumentCreate of process_document, ChunkCreate of            *)
(* _save_document_data).                                                   *)

Files == { 1, 2, 3, 4 }

\* DocumentCreate built by process_document for file f
FileDocument(f) ==
    [ file_path |-> f,
      filename |-> << "f", "." , "m", "d" >>,
      title |-> CASE f = 1 -> << "C", "a", "m", "e", "r", "a" >>
                  [] f = 2 -> << "A", "D", "A", "S" >>
                  [] f = 3 -> << "B", "r", "a", "k", "e" >>
                  [] OTHER -> NullText,
      content_type |-> CASE f = 1 -> "hardware_spec"
                         [] f = 2 -> "ota_update"
                         [] f = 3 -> "ota_update"
                         [] f = 5 -> "diagnostic_log"
                         [] OTHER -> "repair_note",
      vehicle_system |-> CASE f = 1 -> "ADAS"
                           [] f = 2 -> "ADAS"
                           [] f = 3 -> "braking"
                           [] OTHER -> NULL,
      component_name |-> NullText,
      processing_status |-> "processing",
      chunk_count |-> 0 ]

\* a text one character longer than the preview of a SearchResult
LongContent ==
    << "u", "n", "i", "t" >> \o [ i \in 1..497 |-> "z" ]

\* the (content, embedding) of the chunks of file f, in chunk_index order;
\* an embedding is a unit vector, << >> when the chunk has none
FileChunks(f) ==
    CASE f = 1 -> << [ content |-> << "L", "i", "d", "a", "r", " ", "u", "n", "i", "t" >>,
                       embedding |-> << 1, 0 >> ] >>
      [] f = 2 -> << [ content |-> << "w", "h", "a", "t", " ", "u", "n", "i", "t" >>,
                       embedding |-> << 0, 1 >> ] >>
      [] f = 3 -> << [ content |-> << "c", "a", "m", "e", "r", "a", " ", "l", "e", "n", "s" >>,
                       embedding |-> << 1, 0 >> ],
                     [ content |-> << "5", "0", " ", "k", "m" >>,
                       embedding |-> << >> ] >>
      [] f = 5 -> << [ content |-> LongContent, embedding |-> << 0, 1 >> ] >>
      [] OTHER -> << [ content |-> << "A", "d", "a", "s", " ", "l", "e", "n", "s" >>,
                       embedding |-> << 0, 1 >> ] >>

ContentTypes ==
    { "ota_update", "hardware_spec", "diagnostic_log", "repair_note",
      "supplier_doc", "system_architecture" }

VehicleSystems ==
    { "ADAS", "braking", "steering", "powertrain", "infotainment", "hvac",
      "lighting", "body_control", "network" }

----------------------------------------------------------------------------
(* Document store: DocumentRepository.create_document,                     *)
(* ChunkRepository.create_chunk                                            *)

ChunksOf(document_id) == { c \in chunks : c.document_id = document_id }

\* INSERT INTO documents ... RETURNING *: the row gets a fresh id (a path
\* is stored once here, so the file number identifies the row) and the
\* store's current time, which never runs backwards.
CreateDocument(f, now) ==
    /\ Idle
    /\ \A d \in documents : d.file_path # f /\ d.created_at <= now
    /\ LET row == [ id |-> f, created_at |-> now ] @@ FileDocument(f)
       IN  /\ documents' = documents \cup { row }
           /\ response' = [ op |-> "create_document", document |-> row ]
    /\ UNCHANGED << chunks, db_manager, pool, tools_db_manager, graph_vars, service_vars >>

\* INSERT INTO chunks ... RETURNING *: the next chunk of the document's
\* file; the foreign key requires the document row.
CreateChunk(d) ==
    /\ Idle
    /\ d \in documents
    /\ LET i == Cardinality(ChunksOf(d.id))
       IN  /\ i < Len(FileChunks(d.file_path))
           /\ LET row == [ id |-> << d.id, i >>,
                           document_id |-> d.id,
                           chunk_index |-> i,
                           content |-> FileChunks(d.file_path)[i + 1].content,
                           embedding |-> FileChunks(d.file_path)[i + 1].embedding ]
              IN  /\ chunks' = chunks \cup { row }
                  /\ response' = [ op |-> "create_chunk", chunk |-> row ]
    /\ UNCHANGED << documents, db_manager, pool, tools_db_manager, graph_vars, service_vars >>

----------------------------------------------------------------------------
(* Process-wide database manager: initialize_database, close_database,     *)
(* DatabaseManager.initialize / close                                      *)

\* what DatabaseManager.initialize can do
InitOutcomes == { "ok", "create_pool_fails", "test_query_fails" }

\* initialize_database, called once per process (the API lifespan): the
\* global is assigned before the pool is created. When create_pool fails
\* _pool stays None; when the test query fails _pool is already assigned;
\* in both cases the exception propagates and the global keeps the manager.
InitializeDatabase(outcome) ==
    /\ Idle
    /\ pool = "absent"
    /\ db_manager' = "manager"
    /\ pool' = IF outcome = "create_pool_fails" THEN "none" ELSE "open"
    /\ response' = [ op |-> "initialize_database", raised |-> outcome # "ok" ]
    /\ UNCHANGED << documents, chunks, tools_db_manager, graph_vars, service_vars >>

\* close_database: closes the pool if there is one and clears the global;
\* nothing happens when the global is None
CloseDatabase ==
    /\ Idle
    /\ pool' = IF db_manager = "manager" /\ pool = "open" THEN "closed" ELSE pool
    /\ db_manager' = "None"
    /\ response' = [ op |-> "close_database" ]
    /\ UNCHANGED << documents, chunks, tools_db_manager, graph_vars, service_vars >>

----------------------------------------------------------------------------
(* The SQL statement of hybrid_search                                      *)

\* LOWER(x) of a nullable text column
LowerSql(s) == IF IsNullText(s) THEN NullText ELSE Lower(s)

\* JoinRows without the ON condition
JoinRowsCross == [ c : chunks, d : documents ]

\* FROM chunks c JOIN documents d ON c.document_id = d.id
JoinRows ==
    { row \in [ c : chunks, d : documents ] : row.c.document_id = row.d.id }

\* (LOWER(c.content) LIKE $n OR LOWER(d.title) LIKE $n), given the two
\* lower-cased columns of the row
TermCondition(lower_content, lower_title, term) ==
    \/ ~IsNullText(lower_content) /\ Like(lower_content, Pattern(term))
    \/ ~IsNullText(lower_title) /\ Like(lower_title, Pattern(term))

\* SearchCondition with the term conditions left out of the WHERE clause
SearchConditionDropped(row, search_terms) == TRUE

\* SearchCondition without the fallback: an empty list of term conditions
\* is satisfied by no row
SearchConditionNoFallback(row, search_terms) ==
    LET lower_content == LowerSql(row.c.content)
        lower_title == LowerSql(row.d.title)
    IN  \E i \in DOMAIN search_terms :
            TermCondition(lower_content, lower_title, search_terms[i])

\* the first search condition: the term conditions joined with OR, or TRUE
\* when no term survived
SearchCondition(row, search_terms) ==
    IF search_terms # << >>
    THEN LET lower_content == LowerSql(row.c.content)
             lower_title == LowerSql(row.d.title)
         IN  \E i \in DOMAIN search_terms :
                 TermCondition(lower_content, lower_title, search_terms[i])
    ELSE TRUE

\* column IN ($n, ...): not true for a NULL column
InList(value, list) ==
    value # NULL /\ \E i \in DOMAIN list : list[i] = value

\* the search conditions joined with AND; a filter is added only when the
\* request's list is non-empty (None and [] are both falsy)
WhereClause(row, query, search_terms) ==
    /\ SearchCondition(row, search_terms)
    /\ query.content_types # << >> => InList(row.d.content_type, query.content_types)
    /\ query.vehicle_systems # << >> => InList(row.d.vehicle_system, query.vehicle_systems)

\* CASE WHEN LOWER(d.title) LIKE '%camera%' THEN 1 ELSE 2 END
CameraKey(row) ==
    IF Like(LowerSql(row.d.title), Pattern(<< "c", "a", "m", "e", "r", "a" >>))
    THEN 1 ELSE 2

\* CASE WHEN LOWER(d.title) LIKE '%adas%' THEN 1 ELSE 2 END
AdasKey(row) ==
    IF Like(LowerSql(row.d.title), Pattern(<< "a", "d", "a", "s" >>))
    THEN 1 ELSE 2

\* the three ORDER BY expressions of a row; the third is DESC
SortKey(row) == << CameraKey(row), AdasKey(row), row.d.created_at >>

\* OrderedBefore with the third key ascending (DESC left out)
OrderedBeforeAscending(j, k) ==
    \/ j[1] < k[1]
    \/ j[1] = k[1] /\ j[2] < k[2]
    \/ j[1] = k[1] /\ j[2] = k[2] /\ j[3] < k[3]

\* ORDER BY: a row with sort key j sorts strictly before one with key k
OrderedBefore(j, k) ==
    \/ j[1] < k[1]
    \/ j[1] = k[1] /\ j[2] < k[2]
    \/ j[1] = k[1] /\ j[2] = k[2] /\ j[3] > k[3]

RECURSIVE Arrange(_)
\* every arrangement of rows (each with its sort key) in which no row is
\* preceded by one that sorts strictly after it
Arrange(keyed) ==
    IF keyed = {} THEN { << >> }
    ELSE UNION { { << m.row >> \o rest : rest \in Arrange(keyed \ { m }) } :
                 m \in { k \in keyed :
                           \A o \in keyed : ~OrderedBefore(o.key, k.key) } }

\* every order the store may return the rows in: rows the ORDER BY does
\* not separate come in an order the store chooses
OrderBy(rows) ==
    Arrange({ [ row |-> row, key |-> SortKey(row) ] : row \in rows })

\* Limit that leaves the list as it is
LimitMissing(seq, n) == seq

\* LIMIT n, for n >= 0
Limit(seq, n) == SubSeq(seq, 1, IF n < Len(seq) THEN n ELSE Len(seq))

\* the row lists fetch_all may return for the statement
FetchAll(query, search_terms) ==
    { Limit(seq, query.max_results) :
        seq \in OrderBy({ row \in JoinRows : WhereClause(row, query, search_terms) }) }

----------------------------------------------------------------------------
(* Result mapping and the hybrid_search tool                               *)

\* the preview length of SearchResult.content
PreviewCap == 500
\* "1.0 as relevance_score", in hundredths
RelevanceScore == 100
\* default of HybridSearchQuery.similarity_threshold (0.7), in hundredths
DefaultSimilarityThreshold == 70

\* row["content"][:500] + "..." if len(row["content"]) > 500 else row["content"]
Preview(content) ==
    IF Len(content) > PreviewCap
    THEN SubSeq(content, 1, PreviewCap) \o << ".", ".", "." >>
    ELSE content

\* SearchResult(...).model_dump() for a row
MapRow(row) ==
    [ chunk_id |-> row.c.id,
      document_id |-> row.c.document_id,
      content |-> Preview(row.c.content),
      score |-> RelevanceScore,
      document_title |-> row.d.title,
      document_filename |-> row.d.filename,
      content_type |-> row.d.content_type,
      vehicle_system |-> row.d.vehicle_system,
      component_name |-> row.d.component_name ]

\* SearchResult(...) of the row raises: len(None) for a NULL content, a
\* validation error for a NULL required str field
MapRowRaises(row) ==
    \/ IsNullText(row.c.content)
    \/ IsNullText(row.d.filename)
    \/ row.d.content_type = NULL

\* the loop over rows that builds search_results: a row whose SearchResult
\* raises is logged and left out
MapRows(rows) ==
    LET Maps(row) == ~MapRowRaises(row)
        kept == SelectSeq(rows, Maps)
    IN  [ i \in DOMAIN kept |-> MapRow(kept[i]) ]

\* summary["result_distribution"]: results per content type
ResultDistribution(search_results) ==
    [ ct \in { search_results[i].content_type : i \in DOMAIN search_results } |->
        Cardinality({ i \in DOMAIN search_results : search_results[i].content_type = ct }) ]

\* the dict returned by the try block
SuccessResponse(query, search_terms, search_results) ==
    [ op |-> "hybrid_search",
      results |-> search_results,
      summary |-> [ total_results |-> Len(search_results),
                    search_terms |-> search_terms,
                    filters_applied |-> [ content_types |-> query.content_types,
                                          vehicle_systems |-> query.vehicle_systems ],
                    result_distribution |-> ResultDistribution(search_results) ],
      query_parameters |-> query ]

\* ErrorResponse that keeps the summary built before the failure
ErrorResponseKeepsSummary(message) ==
    [ op |-> "hybrid_search",
      error |-> << "Hybrid search failed: ", message >>,
      results |-> << >>,
      summary |-> [ total_results |-> 0 ] ]

\* the dict returned by the except block
ErrorResponse(message) ==
    [ op |-> "hybrid_search",
      error |-> << "Hybrid search failed: ", message >>,
      results |-> << >>,
      summary |-> << >> ]

\* the requests: HybridSearchQuery values
Queries ==
    { << >>,
      << "I", "s", " ", "t", "h", "e", " ", "x", " ", "?" >>,
      << "A", "D", "A", "S", " ", "c", "a", "m", "e", "r", "a" >>,
      << "W", "h", "a", "t", " ", "i", "s", " ", "t", "h", "e", " ", "u", "n", "i", "t", "?" >>,
      << "5", "_" >> }

HybridSearchQueries ==
    [ query : Queries,
      search_type : { "hybrid" },
      max_results : -1..MaxResultsBound,
      content_types : { << >>, << "ota_update", "firmware" >> },
      vehicle_systems : { << >>, << "ADAS" >> },
      similarity_threshold : { DefaultSimilarityThreshold } ]

\* self.initialize() of the first call: get_db_manager raises RuntimeError
\* when the global is None
InitializeRaises == tools_db_manager = "None" /\ db_manager = "None"

\* the dicts AutomotiveTools.hybrid_search(query) may return in the current
\* state. store_ok: the store answers the statement (it is reachable and a
\* connection can be acquired).
HybridSearchReturns(query, store_ok) ==
    IF InitializeRaises
    THEN { ErrorResponse("Database manager not initialized") }
    ELSE IF pool = "none"
    THEN \* get_connection raises RuntimeError
         { ErrorResponse("Database pool not initialized") }
    ELSE IF pool = "closed"
    THEN \* acquire on a closed pool raises
         { ErrorResponse("pool is closed") }
    ELSE IF ~store_ok
    THEN { ErrorResponse("connection failed") }
    ELSE IF query.max_results < 0
    THEN \* the store rejects a negative LIMIT
         { ErrorResponse("LIMIT must not be negative") }
    ELSE LET search_terms == SearchTerms(query.query)
         IN  { SuccessResponse(query, search_terms, MapRows(rows)) :
                 rows \in FetchAll(query, search_terms) }

\* AutomotiveTools.hybrid_search: the call initialises the tools when it
\* can, and returns one of the dicts above
HybridSearch(store_ok) ==
    /\ Idle
    /\ tools_db_manager' = IF InitializeRaises THEN tools_db_manager ELSE "manager"
    /\ response' \in UNION { HybridSearchReturns(query, store_ok) :
                               query \in HybridSearchQueries }
    /\ UNCHANGED << documents, chunks, db_manager, pool, graph_vars, service_vars >>

----------------------------------------------------------------------------
(* Specification *)

Init ==
    /\ documents = {}
    /\ chunks = {}
    /\ db_manager = "None"
    /\ pool = "absent"
    /\ tools_db_manager = "None"
    /\ nodes = {}
    /\ edges = {}
    /\ graph_manager = "None"
    /\ driver = "absent"
    /\ ServicesAtRest
    /\ response = NoResponse

Next ==
    \/ \E f \in Files, now \in 0..MaxClock : CreateDocument(f, now)
    \/ \E d \in documents : CreateChunk(d)
    \/ \E outcome \in InitOutcomes : InitializeDatabase(outcome)
    \/ CloseDatabase
    \/ \E store_ok \in BOOLEAN : HybridSearch(store_ok)
    \/ Return

Spec == Init /\ [][Next]_vars

----------------------------------------------------------------------------
(* Vector path: ChunkRepository.vector_search                              *)

\* inner product of two embeddings
Dot(a, b) == a[1] * b[1] + a[2] * b[2]

\* c.embedding <=> $1, the cosine distance, in hundredths; the embeddings
\* of the corpus and of the queries are unit vectors
CosineDistance(a, b) == 100 - 100 * Dot(a, b)

\* the query embeddings
QueryEmbeddings == { << 1, 0 >>, << 0, 1 >> }

\* CloserOrEqual for ORDER BY ... DESC
CloserOrEqualDescending(a, b) == a >= b

\* ORDER BY c.embedding <=> $1 (ascending): a row at distance a may come
\* before a row at distance b
CloserOrEqual(a, b) == a <= b

RECURSIVE ArrangeByDistance(_)
\* every arrangement of rows (each with its distance) in ascending
\* distance; rows at the same distance come in an order the store chooses
ArrangeByDistance(keyed) ==
    IF keyed = {} THEN { << >> }
    ELSE UNION { { << m.row >> \o rest : rest \in ArrangeByDistance(keyed \ { m }) } :
                 m \in { k \in keyed :
                           \A o \in keyed : CloserOrEqual(k.distance, o.distance) } }

\* the VectorSearchResult of a row: content is not truncated here
MapVectorRow(row, query_embedding) ==
    [ chunk_id |-> row.c.id,
      document_id |-> row.c.document_id,
      content |-> row.c.content,
      score |-> 100 - CosineDistance(row.c.embedding, query_embedding),
      similarity_score |-> 100 - CosineDistance(row.c.embedding, query_embedding),
      chunk_index |-> row.c.chunk_index,
      document_title |-> row.d.title,
      document_filename |-> row.d.filename,
      content_type |-> row.d.content_type,
      vehicle_system |-> row.d.vehicle_system,
      component_name |-> row.d.component_name ]

\* WHERE c.embedding IS NOT NULL
EmbeddingIsNotNull(row) == row.c.embedding # << >>

\* the row lists fetch_all may return for the statement of vector_search;
\* NULL for a filter that is not given
VectorFetchAll(query_embedding, limit, content_type, vehicle_system) ==
    LET rows == { row \in JoinRows :
                    /\ EmbeddingIsNotNull(row)
                    /\ content_type # NULL => row.d.content_type = content_type
                    /\ vehicle_system # NULL => row.d.vehicle_system = vehicle_system }
        keyed == { [ row |-> row,
                     distance |-> CosineDistance(row.c.embedding, query_embedding) ] :
                   row \in rows }
    IN  { Limit(seq, limit) : seq \in ArrangeByDistance(keyed) }

\* the lists vector_search(query_embedding, limit, content_type,
\* vehicle_system) may return when the store answers
VectorSearchReturns(query_embedding, limit, content_type, vehicle_system) ==
    { [ i \in DOMAIN seq |-> MapVectorRow(seq[i], query_embedding) ] :
        seq \in VectorFetchAll(query_embedding, limit, content_type, vehicle_system) }

----------------------------------------------------------------------------
(* vector_search as an operation, and the two search paths over a stored   *)
(* corpus                                                                  *)

\* the calls vector_search(query_embedding, limit, content_type,
\* vehicle_system); NULL for a filter that is not given
VectorSearchCalls ==
    [ query_embedding : QueryEmbeddings,
      limit : -1..MaxResultsBound,
      content_type : { NULL, "ota_update" },
      vehicle_system : { NULL, "ADAS" } ]

\* VectorSearchResult(...) of the row raises a validation error: a None
\* for a required str field
MapVectorRowRaises(row) ==
    \/ IsNullText(row.c.content)
    \/ IsNullText(row.d.filename)
    \/ row.d.content_type = NULL

\* vector_search returns the list
VectorReturned(call, results) ==
    [ op |-> "vector_search", call |-> call, returned |-> results ]

\* vector_search raises: nothing in it catches an exception
VectorRaised(call, message) ==
    [ op |-> "vector_search", call |-> call, raised |-> message ]

\* what vector_search(call) may do in the current state. store_ok: the
\* store answers the statement.
VectorSearchOutcomes(call, store_ok) ==
    IF pool = "none"
    THEN { VectorRaised(call, "Database pool not initialized") }
    ELSE IF pool = "closed"
    THEN { VectorRaised(call, "pool is closed") }
    ELSE IF ~store_ok
    THEN { VectorRaised(call, "connection failed") }
    ELSE IF call.limit < 0
    THEN { VectorRaised(call, "LIMIT must not be negative") }
    ELSE { IF \E i \in DOMAIN rows : MapVectorRowRaises(rows[i])
           THEN VectorRaised(call, "validation error")
           ELSE VectorReturned(call, [ i \in DOMAIN rows |->
                                        MapVectorRow(rows[i], call.query_embedding) ]) :
           rows \in VectorFetchAll(call.query_embedding, call.limit,
                                   call.content_type, call.vehicle_system) }

\* ChunkRepository.vector_search, on a repository built over the process's
\* database manager
VectorSearch(store_ok) ==
    /\ Idle
    /\ db_manager = "manager" \/ tools_db_manager = "manager"
    /\ response' \in UNION { VectorSearchOutcomes(call, store_ok) :
                               call \in VectorSearchCalls }
    /\ UNCHANGED << documents, chunks, db_manager, pool, tools_db_manager, graph_vars, service_vars >>

\* The store is shared: a row may come from another writer. The tables'
\* constraints are not part of the sources; the row mapping is specified
\* for rows with a required field missing. Such a writer adds, to a
\* document whose chunks are all stored, a chunk without content.
StoreMalformedChunk(d) ==
    /\ Idle
    /\ d \in documents
    /\ LET i == Cardinality(ChunksOf(d.id))
       IN  /\ i = Len(FileChunks(d.file_path))
           /\ LET row == [ id |-> << d.id, i >>,
                           document_id |-> d.id,
                           chunk_index |-> i,
                           content |-> NullText,
                           embedding |-> << 1, 0 >> ]
              IN  /\ chunks' = chunks \cup { row }
                  /\ response' = [ op |-> "store_malformed_chunk", chunk |-> row ]
    /\ UNCHANGED << documents, db_manager, pool, tools_db_manager, graph_vars, service_vars >>

\* the rows of file f as create_document and create_chunk store them
StoredDocument(f, now) == [ id |-> f, created_at |-> now ] @@ FileDocument(f)

StoredChunks(f) ==
    { [ id |-> << f, i - 1 >>,
        document_id |-> f,
        chunk_index |-> i - 1,
        content |-> FileChunks(f)[i].content,
        embedding |-> FileChunks(f)[i].embedding ] : i \in DOMAIN FileChunks(f) }

\* the files ingested while the specification runs
LateFiles == { 5 }

\* a running process whose store holds files 1 and 3
StoreInit ==
    /\ documents = { StoredDocument(1, 0), StoredDocument(3, 0) }
    /\ chunks = StoredChunks(1) \cup StoredChunks(3)
    /\ db_manager = "manager"
    /\ pool = "open"
    /\ tools_db_manager = "None"
    /\ nodes = {}
    /\ edges = {}
    /\ graph_manager = "None"
    /\ driver = "absent"
    /\ ServicesAtRest
    /\ response = NoResponse

StoreNext ==
    \/ \E f \in LateFiles, now \in 0..MaxClock : CreateDocument(f, now)
    \/ \E d \in documents : CreateChunk(d)
    \/ \E d \in documents : StoreMalformedChunk(d)
    \/ \E store_ok \in BOOLEAN : HybridSearch(store_ok)
    \/ \E store_ok \in BOOLEAN : VectorSearch(store_ok)
    \/ Return

StoreSpec == StoreInit /\ [][StoreNext]_vars

----------------------------------------------------------------------------
(* Graph store: the content the reads of AutomotiveGraphRepository run on  *)

\* max_depth of a call ranges over 0..MaxDepth
MaxDepth == 3

\* relationship types, in code-point order: three of those the extraction
\* prompt lists (AFFECTS, CAUSES, CONNECTED_TO) and the three the statement
\* of find_component_dependencies names
RelationshipTypes ==
    << "AFFECTS", "CAUSES", "CONNECTED_TO", "DEPENDS_ON", "PART_OF", "SUPPLIED_BY" >>

\* the nodes: each has the labels, the name and the properties create_entity
\* sets (type, value, confidence_score in hundredths)
Entities ==
    { [ id |-> 1, labels |-> { "Entity", "Component" },
        name |-> << "C", "a", "m" >>, type |-> "component",
        value |-> << "c", "a", "m", "e", "r", "a" >>, confidence_score |-> 80 ],
      [ id |-> 2, labels |-> { "Entity", "Component" },
        name |-> << "A", "b", "s" >>, type |-> "component",
        value |-> NullText, confidence_score |-> 80 ],
      [ id |-> 3, labels |-> { "Entity", "Component" },
        name |-> << "E", "s", "p" >>, type |-> "component",
        value |-> NullText, confidence_score |-> 90 ],
      [ id |-> 4, labels |-> { "Entity", "System" },
        name |-> << "A", "D", "A", "S" >>, type |-> "system",
        value |-> NullText, confidence_score |-> 80 ],
      [ id |-> 5, labels |-> { "Entity", "Supplier" },
        name |-> << "B", "o", "s", "c", "h" >>, type |-> "supplier",
        value |-> NullText, confidence_score |-> 70 ] }

\* a relationship (a)-[:type]->(b); MERGE keeps one per (a, type, b)
Relationship(a, type, b) == [ from |-> a, type |-> type, to |-> b ]

\* the relationships a graph of the model is made of: a chain, the edge
\* that closes it to a cycle, the component's system and supplier, and a
\* PART_OF between two components
CandidateEdges ==
    { Relationship(1, "DEPENDS_ON", 2),
      Relationship(2, "DEPENDS_ON", 3),
      Relationship(3, "DEPENDS_ON", 1),
      Relationship(1, "PART_OF", 4),
      Relationship(1, "SUPPLIED_BY", 5),
      Relationship(1, "PART_OF", 2) }

\* two nodes joined by one relationship of every type
DenseGraph ==
    { Relationship(1, RelationshipTypes[i], 2) : i \in DOMAIN RelationshipTypes }

\* the graphs: the store's content is written by the ingestion side
Graphs == (SUBSET CandidateEdges) \cup { DenseGraph }

NodeById(id) == CHOOSE n \in nodes : n.id = id

\* MATCH (n:label {name: name})
Match(label, name) == { n \in nodes : label \in n.labels /\ n.name = name }

----------------------------------------------------------------------------
(* Process-wide graph manager: initialize_graph, close_graph               *)

\* what GraphManager.initialize can do: the driver is built, or building
\* it raises. A server that cannot be reached does not make it raise
\* (verify_connectivity returns False and its result is not looked at).
GraphInitOutcomes == { "ok", "driver_fails" }

\* initialize_graph: the global is assigned before the driver is built
InitializeGraph(outcome) ==
    /\ Idle
    /\ driver = "absent"
    /\ graph_manager' = "manager"
    /\ driver' = IF outcome = "ok" THEN "open" ELSE "none"
    /\ response' = [ op |-> "initialize_graph", raised |-> outcome # "ok" ]
    /\ UNCHANGED << documents, chunks, db_manager, pool, tools_db_manager, nodes, edges, service_vars >>

\* close_graph: closes the driver if there is one and clears the global
CloseGraph ==
    /\ Idle
    /\ driver' = IF graph_manager = "manager" /\ driver = "open" THEN "closed" ELSE driver
    /\ graph_manager' = "None"
    /\ response' = [ op |-> "close_graph" ]
    /\ UNCHANGED << documents, chunks, db_manager, pool, tools_db_manager, nodes, edges, service_vars >>

----------------------------------------------------------------------------
(* Ordering of the rows of a graph query                                   *)

\* the letters in code-point order: upper case before lower case
CodePoints == UpperChars \o LowerChars

\* the position of a character in that order
CodePoint(c) == CHOOSE i \in DOMAIN CodePoints : CodePoints[i] = c

\* a text as a sort key: its code points, closed by 0 so that a prefix
\* sorts first
NameKey(name) == [ i \in 1..(Len(name) + 1) |->
                     IF i <= Len(name) THEN CodePoint(name[i]) ELSE 0 ]

\* the position of a relationship type among the types
TypeRank(type) == CHOOSE i \in DOMAIN RelationshipTypes : RelationshipTypes[i] = type

\* the orders the store may produce rows in, for rows the ORDER BY of a
\* statement does not separate
ScanOrders == { "forward", "backward" }

\* the place of a list of relationship types in the store's order
ScanKey(types, scan) ==
    [ i \in DOMAIN types |->
        IF scan = "forward" THEN TypeRank(types[i])
        ELSE Len(RelationshipTypes) + 1 - TypeRank(types[i]) ]

\* lexicographic order on sort keys (sequences of integers)
KeyLess(a, b) ==
    \/ \E i \in 1..Len(a) :
          /\ i <= Len(b)
          /\ \A j \in 1..(i - 1) : a[j] = b[j]
          /\ a[i] < b[i]
    \/ /\ Len(a) < Len(b)
       /\ \A j \in 1..Len(a) : a[j] = b[j]

\* ORDER BY key LIMIT n over rows that each carry a different key
TakeSorted(keyed, n) ==
    LET ranked == { [ row |-> k.row,
                      before |-> Cardinality({ o \in keyed : KeyLess(o.key, k.key) }) ] :
                    k \in keyed }
        taken == IF n <= 0 THEN 0
                 ELSE IF n < Cardinality(keyed) THEN n ELSE Cardinality(keyed)
    IN  [ i \in 1..taken |-> (CHOOSE r \in ranked : r.before = i - 1).row ]

RECURSIVE CollectOrders(_)
\* every order of the elements of a set: what collect() may return
CollectOrders(set) ==
    IF set = {} THEN { << >> }
    ELSE UNION { { << x >> \o rest : rest \in CollectOrders(set \ { x }) } : x \in set }

----------------------------------------------------------------------------
(* find_related_entities                                                   *)

\* LIMIT 100 of find_related_entities
RelatedLimit == 100

\* the calls find_related_entities(entity_name, max_depth,
\* relationship_types); << >> for relationship_types None or []
RelatedCalls ==
    [ entity_name : { << "C", "a", "m" >>, << "A", "b", "s" >>, << "Z" >> },
      max_depth : 0..MaxDepth,
      relationship_types : { << >>, << "DEPENDS_ON" >>, << "DEPENDS_ON", "PART_OF" >> } ]

\* the relationships the pattern may traverse: [r:T1|T2*1..d], or
\* [r*1..d] when no type is given
Traversable(relationship_types) ==
    IF relationship_types # << >>
    THEN { e \in edges : \E i \in DOMAIN relationship_types :
                             e.type = relationship_types[i] }
    ELSE edges

\* the node at the other end of a relationship, traversed in either
\* direction
OtherEnd(e, n) == IF e.from = n THEN e.to ELSE e.from

\* the paths one relationship longer: a path does not traverse a
\* relationship twice; it may come back to a node
Extend(paths, allowed) ==
    UNION { { [ end |-> OtherEnd(e, path.end),
                used |-> path.used \cup { e },
                types |-> Append(path.types, e.type) ] :
              e \in { a \in allowed \ path.used :
                        a.from = path.end \/ a.to = path.end } } :
            path \in paths }

RECURSIVE Walk(_, _, _)
\* the paths of 1..depth relationships that extend the given paths
Walk(paths, allowed, depth) ==
    IF depth <= 0 \/ paths = {} THEN {}
    ELSE LET longer == Extend(paths, allowed)
         IN  longer \cup Walk(longer, allowed, depth - 1)

\* MATCH path = (start:Entity {name: $entity_name})
\*              -[r*1..max_depth]-(related:Entity)
\* RETURN DISTINCT name, type, value, length(path), types of the path
RelatedRows(call) ==
    LET starts == { [ end |-> n.id, used |-> {}, types |-> << >> ] :
                    n \in Match("Entity", call.entity_name) }
        paths == Walk(starts, Traversable(call.relationship_types), call.max_depth)
    IN  { [ name |-> NodeById(path.end).name,
            type |-> NodeById(path.end).type,
            value |-> NodeById(path.end).value,
            distance |-> Len(path.types),
            relationship_path |-> path.types ] :
          path \in { q \in paths : "Entity" \in NodeById(q.end).labels } }

\* RelatedOrder without the distance: ORDER BY related.name
RelatedOrderByName(row, scan) ==
    NameKey(row.name) \o ScanKey(row.relationship_path, scan)

\* ORDER BY distance, related.name; then the store's order
RelatedOrder(row, scan) ==
    << row.distance >> \o NameKey(row.name) \o ScanKey(row.relationship_path, scan)

\* the list the query of find_related_entities gives
RelatedEntities(call, scan) ==
    TakeSorted({ [ row |-> row, key |-> RelatedOrder(row, scan) ] :
                 row \in RelatedRows(call) }, RelatedLimit)

----------------------------------------------------------------------------
(* find_component_dependencies, find_system_components, search_by_pattern  *)

\* the calls find_component_dependencies(component_name)
DependencyCalls == { << "C", "a", "m" >>, << "A", "b", "s" >>, << "Z" >> }

\* (c)-[:type]->(x:label): the names of the nodes x
Outgoing(c, type, label) ==
    { NodeById(e.to).name :
        e \in { x \in edges : /\ x.from = c.id
                              /\ x.type = type
                              /\ label \in NodeById(x.to).labels } }

\* Incoming that follows the relationship the wrong way
IncomingAsOutgoing(c, type, label) == Outgoing(c, type, label)

\* (x:label)-[:type]->(c): the names of the nodes x
Incoming(c, type, label) ==
    { NodeById(e.from).name :
        e \in { x \in edges : /\ x.to = c.id
                              /\ x.type = type
                              /\ label \in NodeById(x.from).labels } }

\* [x for x in record[...] if x]: an empty name is left out
Truthy(names) == { name \in names : name # << >> /\ ~IsNullText(name) }

\* the dicts the query of find_component_dependencies gives: collect(
\* DISTINCT ...) over every matched component; one record also when no
\* component matches
ComponentDependencies(component_name) ==
    LET cs == Match("Component", component_name)
        dep == UNION { Outgoing(c, "DEPENDS_ON", "Component") : c \in cs }
        req == UNION { Incoming(c, "DEPENDS_ON", "Component") : c \in cs }
        sys == UNION { Outgoing(c, "PART_OF", "System") : c \in cs }
        sup == UNION { Outgoing(c, "SUPPLIED_BY", "Supplier") : c \in cs }
    IN  { [ dependencies |-> d, required_by |-> r, systems |-> y, suppliers |-> u ] :
          d \in CollectOrders(Truthy(dep)), r \in CollectOrders(Truthy(req)),
          y \in CollectOrders(Truthy(sys)), u \in CollectOrders(Truthy(sup)) }

\* the dict of the except block, and of "record is None"
NoDependencies ==
    [ dependencies |-> << >>, required_by |-> << >>,
      systems |-> << >>, suppliers |-> << >> ]

\* the calls find_system_components(system_name)
SystemCalls == { << "A", "D", "A", "S" >>, << "Z" >> }

\* the lists the query of find_system_components gives: one row per
\* (c.name, c.value) with the suppliers collected, ORDER BY c.name
SystemComponents(system_name) ==
    LET members == { c \in nodes :
                       /\ "Component" \in c.labels
                       /\ \E e \in edges :
                             /\ e.from = c.id
                             /\ e.type = "PART_OF"
                             /\ NodeById(e.to) \in Match("System", system_name) }
        groups == { [ name |-> c.name, value |-> c.value ] : c \in members }
        Suppliers(g) ==
            UNION { Outgoing(c, "SUPPLIED_BY", "Supplier") :
                    c \in { m \in members : m.name = g.name /\ m.value = g.value } }
        collected == { f \in [ groups -> UNION { CollectOrders(Truthy(Suppliers(g))) :
                                                 g \in groups } ] :
                         \A g \in groups : f[g] \in CollectOrders(Truthy(Suppliers(g))) }
    IN  { TakeSorted({ [ row |-> [ name |-> g.name, value |-> g.value,
                                   suppliers |-> f[g] ],
                         key |-> NameKey(g.name) ] : g \in groups },
                     Cardinality(groups)) :
          f \in collected }

\* LIMIT 50 of search_by_pattern
PatternLimit == 50

\* the calls search_by_pattern(pattern, entity_types); the patterns are
\* letters, which the regular expression takes literally
PatternCalls ==
    [ pattern : { << "a" >>, << "S" >> },
      entity_types : { << >>, << "component" >> } ]

\* e.name =~ '(?i).*pattern.*' [AND (e.type = 't1' OR ...)],
\* ORDER BY e.confidence_score DESC, e.name LIMIT 50
PatternEntities(call) ==
    LET rows == { e \in nodes :
                    /\ "Entity" \in e.labels
                    /\ Contains(Lower(e.name), Lower(call.pattern))
                    /\ call.entity_types # << >> =>
                          \E i \in DOMAIN call.entity_types :
                              e.type = call.entity_types[i] }
    IN  TakeSorted({ [ row |-> [ name |-> e.name, type |-> e.type, value |-> e.value,
                                 confidence_score |-> e.confidence_score ],
                       key |-> << 100 - e.confidence_score >> \o NameKey(e.name) ] :
                     e \in rows }, PatternLimit)

----------------------------------------------------------------------------
(* The graph reads as operations                                           *)

\* the query reaches the graph store and is answered: the driver is open
\* and the store is reachable (graph_ok)
GraphAnswers(graph_ok) == driver = "open" /\ graph_ok

\* the value a graph read returns
GraphReturned(op, call, answered, value) ==
    [ op |-> op, call |-> call, answered |-> answered, returned |-> value ]

\* GraphFailure that lets the exception out
GraphFailureRaises(op, call, empty) ==
    [ op |-> op, call |-> call, answered |-> FALSE, raised |-> "ServiceUnavailable" ]

\* except Exception: the error is logged and the empty shape returned;
\* a driver that is None (AttributeError) or closed, and a store that does
\* not answer, all end here
GraphFailure(op, call, empty) == GraphReturned(op, call, FALSE, empty)

\* FindRelatedEntities with MERGE for MATCH: the start node is created
\* when no node has the name
FindRelatedEntitiesMerging(graph_ok) ==
    /\ Idle
    /\ driver # "absent"
    /\ \E call \in RelatedCalls, scan \in ScanOrders :
          /\ nodes' = IF GraphAnswers(graph_ok) /\ Match("Entity", call.entity_name) = {}
                      THEN nodes \cup { [ id |-> 0, labels |-> { "Entity" },
                                          name |-> call.entity_name, type |-> NULL,
                                          value |-> NullText, confidence_score |-> 0 ] }
                      ELSE nodes
          /\ response' = IF GraphAnswers(graph_ok)
                         THEN GraphReturned("find_related_entities", call, TRUE,
                                            RelatedEntities(call, scan))
                         ELSE GraphFailure("find_related_entities", call, << >>)
    /\ UNCHANGED << documents, chunks, db_manager, pool, tools_db_manager,
                    edges, graph_manager, driver, service_vars >>

\* AutomotiveGraphRepository.find_related_entities, on a repository built
\* over the process's graph manager
FindRelatedEntities(graph_ok) ==
    /\ Idle
    /\ driver # "absent"
    /\ \E call \in RelatedCalls, scan \in ScanOrders :
          response' = IF GraphAnswers(graph_ok)
                      THEN GraphReturned("find_related_entities", call, TRUE,
                                         RelatedEntities(call, scan))
                      ELSE GraphFailure("find_related_entities", call, << >>)
    /\ UNCHANGED << documents, chunks, db_manager, pool, tools_db_manager, graph_vars, service_vars >>

\* AutomotiveGraphRepository.find_component_dependencies
FindComponentDependencies(graph_ok) ==
    /\ Idle
    /\ driver # "absent"
    /\ \E call \in DependencyCalls :
          response' \in IF GraphAnswers(graph_ok)
                        THEN { GraphReturned("find_component_dependencies", call, TRUE, dict) :
                               dict \in ComponentDependencies(call) }
                        ELSE { GraphFailure("find_component_dependencies", call,
                                            NoDependencies) }
    /\ UNCHANGED << documents, chunks, db_manager, pool, tools_db_manager, graph_vars, service_vars >>

\* AutomotiveGraphRepository.find_system_components
FindSystemComponents(graph_ok) ==
    /\ Idle
    /\ driver # "absent"
    /\ \E call \in SystemCalls :
          response' \in IF GraphAnswers(graph_ok)
                        THEN { GraphReturned("find_system_components", call, TRUE, list) :
                               list \in SystemComponents(call) }
                        ELSE { GraphFailure("find_system_components", call, << >>) }
    /\ UNCHANGED << documents, chunks, db_manager, pool, tools_db_manager, graph_vars, service_vars >>

\* AutomotiveGraphRepository.search_by_pattern
SearchByPattern(graph_ok) ==
    /\ Idle
    /\ driver # "absent"
    /\ \E call \in PatternCalls :
          response' = IF GraphAnswers(graph_ok)
                      THEN GraphReturned("search_by_pattern", call, TRUE,
                                         PatternEntities(call))
                      ELSE GraphFailure("search_by_pattern", call, << >>)
    /\ UNCHANGED << documents, chunks, db_manager, pool, tools_db_manager, graph_vars, service_vars >>

\* a running process whose document store holds file 1, over a graph
\* store with the given nodes and one of the graphs
GraphInit ==
    /\ documents = { StoredDocument(1, 0) }
    /\ chunks = StoredChunks(1)
    /\ db_manager = "manager"
    /\ pool = "open"
    /\ tools_db_manager = "manager"
    /\ nodes = Entities
    /\ edges \in Graphs
    /\ graph_manager = "None"
    /\ driver = "absent"
    /\ ServicesAtRest
    /\ response = NoResponse

GraphNext ==
    \/ \E outcome \in GraphInitOutcomes : InitializeGraph(outcome)
    \/ CloseGraph
    \/ \E graph_ok \in BOOLEAN : FindRelatedEntities(graph_ok)
    \/ \E graph_ok \in BOOLEAN : FindComponentDependencies(graph_ok)
    \/ \E graph_ok \in BOOLEAN : FindSystemComponents(graph_ok)
    \/ \E graph_ok \in BOOLEAN : SearchByPattern(graph_ok)
    \/ \E store_ok \in BOOLEAN : HybridSearch(store_ok)
    \/ \E store_ok \in BOOLEAN : VectorSearch(store_ok)
    \/ Return

GraphSpec == GraphInit /\ [][GraphNext]_vars

----------------------------------------------------------------------------
(* Ingestion: IngestionPipeline.process_file and _save_document_data       *)
(* (src/ingestion/ingest.py), DocumentRepository.delete_document and       *)
(* update_document_status (src/agent/db_utils.py). Every await on the      *)
(* store is a step of its own, so the states between two statements are    *)
(* states of the model. The pipeline is the one whose graph initialisation *)
(* failed (graph_repo is None), so that it writes to the document store    *)
(* only.                                                                   *)

\* process_file calls made in a run of the model
MaxIngestions == 2

\* the files the pipeline is given, and the hashes of their versions
IngestFiles == { 1, 3 }
Hashes == { 1, 2 }

\* the statement reaches the store: the pipeline's manager has an open pool
\* and the store answers
StoreAnswers(store_ok) == pool = "open" /\ store_ok

\* the pipeline between two calls; runs counts the calls made
PipelineAtRest(runs) == [ pc |-> "idle", runs |-> runs ]

\* DocumentCreate of process_document for a version of file f: status
\* PROCESSING, chunk_count left at its default 0
IngestDocument(f, file_hash) == [ file_hash |-> file_hash ] @@ FileDocument(f)

\* the id of the document row the current call inserts
NewDocumentId == 10 + pipeline.runs

\* ON DELETE behaviours the foreign key of chunks.document_id may have
OnDelete == { "restrict", "cascade" }

\* DELETE FROM chunks WHERE document_id = $1
DeleteChunksOf(document_id) == chunks \ ChunksOf(document_id)

\* DELETE FROM documents WHERE id = $1, under the foreign key: the
\* statement is rejected (restrict) or takes the chunks along (cascade)
\* when a chunk still references the row
DeleteDocumentRejected(document_id, on_delete) ==
    ChunksOf(document_id) # {} /\ on_delete = "restrict"

\* the value process_file returns, with what the call found and made
ProcessFileReturned(call, returned, created) ==
    [ op |-> "process_file", path |-> call.path, returned |-> returned,
      before |-> call.before, created |-> created ]

\* process_file up to its first await: can_process, then the lookup
ProcessFile(f, file_hash, can_process) ==
    /\ Idle
    /\ db_manager = "manager"
    /\ pipeline.pc = "idle"
    /\ deletion.pc = "idle"
    /\ pipeline.runs < MaxIngestions
    /\ LET call == [ pc |-> "lookup", runs |-> pipeline.runs + 1, path |-> f,
                     file_hash |-> file_hash,
                     before |-> [ documents |-> documents, chunks |-> chunks ] ]
       IN  IF can_process
           THEN pipeline' = call /\ response' = response
           ELSE /\ pipeline' = PipelineAtRest(pipeline.runs + 1)
                /\ response' = ProcessFileReturned(call, FALSE, {})
    /\ UNCHANGED << documents, chunks, db_manager, pool, tools_db_manager,
                    graph_vars, deletion, messages, requests, embedding >>

\* the except block of process_file, and its return True
FinishProcessFile(returned, created) ==
    /\ pipeline' = PipelineAtRest(pipeline.runs)
    /\ response' = ProcessFileReturned(pipeline, returned, created)

\* get_document_by_path: an unchanged file returns True at once, a changed
\* one goes on to delete_document
LookupDocument(store_ok) ==
    /\ pipeline.pc = "lookup"
    /\ Idle
    /\ IF ~StoreAnswers(store_ok)
       THEN FinishProcessFile(FALSE, {})
       ELSE LET existing == { d \in documents : d.file_path = pipeline.path }
            IN  IF existing = {}
                THEN pipeline' = [ pipeline EXCEPT !.pc = "extract" ] /\ response' = response
                ELSE \E d \in existing :
                        IF d.file_hash = pipeline.file_hash
                        THEN FinishProcessFile(TRUE, {})
                        ELSE /\ pipeline' = [ pc |-> "delete_chunks", target |-> d.id ] @@ pipeline
                             /\ response' = response
    /\ UNCHANGED << documents, chunks, db_manager, pool, tools_db_manager,
                    graph_vars, deletion, messages, requests, embedding >>

\* delete_document inside process_file, first statement; a failure ends
\* delete_document (it returns False) and process_file goes on
ReplaceDeleteChunks(store_ok) ==
    /\ pipeline.pc = "delete_chunks"
    /\ IF StoreAnswers(store_ok)
       THEN /\ chunks' = DeleteChunksOf(pipeline.target)
            /\ pipeline' = [ pipeline EXCEPT !.pc = "delete_document" ]
       ELSE /\ chunks' = chunks
            /\ pipeline' = [ pipeline EXCEPT !.pc = "extract" ]
    /\ UNCHANGED << documents, db_manager, pool, tools_db_manager,
                    graph_vars, deletion, messages, requests, embedding, response >>

\* delete_document inside process_file, second statement
ReplaceDeleteDocument(store_ok, on_delete) ==
    /\ pipeline.pc = "delete_document"
    /\ IF StoreAnswers(store_ok) /\ ~DeleteDocumentRejected(pipeline.target, on_delete)
       THEN /\ documents' = { d \in documents : d.id # pipeline.target }
            /\ chunks' = DeleteChunksOf(pipeline.target)
       ELSE UNCHANGED << documents, chunks >>
    /\ pipeline' = [ pipeline EXCEPT !.pc = "extract" ]
    /\ UNCHANGED << db_manager, pool, tools_db_manager,
                    graph_vars, deletion, messages, requests, embedding, response >>

\* process_document: ValueError when no content is extracted
ExtractDocument(has_content) ==
    /\ pipeline.pc = "extract"
    /\ Idle
    /\ IF has_content
       THEN pipeline' = [ pipeline EXCEPT !.pc = "embed" ] /\ response' = response
       ELSE FinishProcessFile(FALSE, {})
    /\ UNCHANGED << documents, chunks, db_manager, pool, tools_db_manager,
                    graph_vars, deletion, messages, requests, embedding >>

\* embedding_manager.get_embeddings: the service's error leaves process_file
EmbedChunks(embedded) ==
    /\ pipeline.pc = "embed"
    /\ Idle
    /\ IF embedded
       THEN pipeline' = [ pipeline EXCEPT !.pc = "create_document" ] /\ response' = response
       ELSE FinishProcessFile(FALSE, {})
    /\ UNCHANGED << documents, chunks, db_manager, pool, tools_db_manager,
                    graph_vars, deletion, messages, requests, embedding >>

\* _save_document_data: create_document
SaveDocument(store_ok, now) ==
    /\ pipeline.pc = "create_document"
    /\ Idle
    /\ \A d \in documents : d.created_at <= now
    /\ IF StoreAnswers(store_ok)
       THEN /\ documents' = documents \cup
                   { [ id |-> NewDocumentId, created_at |-> now ] @@
                     IngestDocument(pipeline.path, pipeline.file_hash) }
            /\ pipeline' = [ pc |-> "create_chunk", saved_doc |-> NewDocumentId,
                             next_chunk |-> 1 ] @@ pipeline
            /\ response' = response
       ELSE /\ documents' = documents
            /\ FinishProcessFile(FALSE, {})
    /\ UNCHANGED << chunks, db_manager, pool, tools_db_manager,
                    graph_vars, deletion, messages, requests, embedding >>

\* _save_document_data: the loop over the chunks, one create_chunk a step;
\* after the last chunk update_document_status(COMPLETED), whose failure is
\* swallowed (it returns False), and process_file returns True
SaveChunk(store_ok) ==
    /\ pipeline.pc = "create_chunk"
    /\ Idle
    /\ pipeline.next_chunk <= Len(FileChunks(pipeline.path))
    /\ IF StoreAnswers(store_ok)
       THEN /\ chunks' = chunks \cup
                   { [ id |-> << pipeline.saved_doc, pipeline.next_chunk - 1 >>,
                       document_id |-> pipeline.saved_doc,
                       chunk_index |-> pipeline.next_chunk - 1,
                       content |-> FileChunks(pipeline.path)[pipeline.next_chunk].content,
                       embedding |-> FileChunks(pipeline.path)[pipeline.next_chunk].embedding ] }
            /\ pipeline' = [ pipeline EXCEPT !.next_chunk = @ + 1 ]
            /\ response' = response
       ELSE /\ chunks' = chunks
            /\ FinishProcessFile(FALSE, { pipeline.saved_doc })
    /\ UNCHANGED << documents, db_manager, pool, tools_db_manager,
                    graph_vars, deletion, messages, requests, embedding >>

\* UPDATE documents SET processing_status = $1 WHERE id = $2
WithStatus(document_id, status) ==
    { IF d.id = document_id THEN [ d EXCEPT !.processing_status = status ] ELSE d :
      d \in documents }

\* _save_document_data: update_document_status(saved_doc.id, COMPLETED)
CompleteDocument(store_ok) ==
    /\ pipeline.pc = "create_chunk"
    /\ Idle
    /\ pipeline.next_chunk > Len(FileChunks(pipeline.path))
    /\ documents' = IF StoreAnswers(store_ok)
                    THEN WithStatus(pipeline.saved_doc, "completed")
                    ELSE documents
    /\ FinishProcessFile(TRUE, { pipeline.saved_doc })
    /\ UNCHANGED << chunks, db_manager, pool, tools_db_manager,
                    graph_vars, deletion, messages, requests, embedding >>

\* the ids delete_document is called with: those of the stored documents
\* and one no document has
DeletionTargets == { d.id : d \in documents } \cup { 0 }

\* DeleteResult that reports success whatever happened
DeleteResultAlways(raised, deleted_rows) == TRUE

\* return "DELETE 1" in result; False from the except block
DeleteResult(raised, deleted_rows) == ~raised /\ deleted_rows = 1

DeleteReturned(document_id, returned) ==
    [ op |-> "delete_document", document_id |-> document_id, returned |-> returned ]

\* DocumentRepository.delete_document, called on its own
DeleteDocument(document_id) ==
    /\ Idle
    /\ db_manager = "manager"
    /\ pipeline.pc = "idle"
    /\ deletion.pc = "idle"
    /\ deletion' = [ pc |-> "delete_chunks", target |-> document_id ]
    /\ UNCHANGED << documents, chunks, db_manager, pool, tools_db_manager,
                    graph_vars, pipeline, messages, requests, embedding, response >>

\* delete_document, first statement: DELETE FROM chunks
DeleteChunks(store_ok) ==
    /\ deletion.pc = "delete_chunks"
    /\ Idle
    /\ IF StoreAnswers(store_ok)
       THEN /\ chunks' = DeleteChunksOf(deletion.target)
            /\ deletion' = [ deletion EXCEPT !.pc = "delete_document" ]
            /\ response' = response
       ELSE /\ chunks' = chunks
            /\ deletion' = NoCall
            /\ response' = DeleteReturned(deletion.target, DeleteResult(TRUE, 0))
    /\ UNCHANGED << documents, db_manager, pool, tools_db_manager,
                    graph_vars, pipeline, messages, requests, embedding >>

\* delete_document, second statement: DELETE FROM documents, and the return
DeleteDocumentRow(store_ok, on_delete) ==
    /\ deletion.pc = "delete_document"
    /\ Idle
    /\ LET raised == ~StoreAnswers(store_ok) \/
                     DeleteDocumentRejected(deletion.target, on_delete)
           rows == { d \in documents : d.id = deletion.target }
       IN  /\ documents' = IF raised THEN documents ELSE documents \ rows
           /\ chunks' = IF raised THEN chunks ELSE DeleteChunksOf(deletion.target)
           /\ response' = DeleteReturned(deletion.target,
                                         DeleteResult(raised, Cardinality(rows)))
    /\ deletion' = NoCall
    /\ UNCHANGED << db_manager, pool, tools_db_manager,
                    graph_vars, pipeline, messages, requests, embedding >>

\* another writer of the store adds a chunk to the document while it is
\* being deleted
WriteDuringDeletion ==
    /\ deletion.pc # "idle"
    /\ \E d \in documents : d.id = deletion.target /\ CreateChunk(d)

\* get_db_manager: RuntimeError when the global is None, else the manager
\* (pool: the state of the pool of the manager returned)
GetDbManager ==
    /\ Idle
    /\ pipeline.pc = "idle"
    /\ deletion.pc = "idle"
    /\ response' = IF db_manager = "None"
                   THEN [ op |-> "get_db_manager", raised |-> TRUE ]
                   ELSE [ op |-> "get_db_manager", raised |-> FALSE, pool |-> pool ]
    /\ UNCHANGED << documents, chunks, db_manager, pool, tools_db_manager,
                    graph_vars, service_vars >>

\* a process that has not initialised its database yet, over an empty store
IngestInit == Init

IngestNext ==
    \/ \E outcome \in InitOutcomes :
          pipeline.pc = "idle" /\ deletion.pc = "idle" /\ InitializeDatabase(outcome)
    \/ pipeline.pc = "idle" /\ deletion.pc = "idle" /\ CloseDatabase
    \/ GetDbManager
    \/ \E f \in IngestFiles, file_hash \in Hashes, can_process \in BOOLEAN :
          ProcessFile(f, file_hash, can_process)
    \/ \E store_ok \in BOOLEAN : LookupDocument(store_ok)
    \/ \E store_ok \in BOOLEAN : ReplaceDeleteChunks(store_ok)
    \/ \E store_ok \in BOOLEAN, on_delete \in OnDelete :
          ReplaceDeleteDocument(store_ok, on_delete)
    \/ \E has_content \in BOOLEAN : ExtractDocument(has_content)
    \/ \E embedded \in BOOLEAN : EmbedChunks(embedded)
    \/ \E store_ok \in BOOLEAN, now \in 0..MaxClock : SaveDocument(store_ok, now)
    \/ \E store_ok \in BOOLEAN : SaveChunk(store_ok)
    \/ \E store_ok \in BOOLEAN : CompleteDocument(store_ok)
    \/ \E document_id \in DeletionTargets : DeleteDocument(document_id)
    \/ \E store_ok \in BOOLEAN : DeleteChunks(store_ok)
    \/ \E store_ok \in BOOLEAN, on_delete \in OnDelete :
          DeleteDocumentRow(store_ok, on_delete)
    \/ WriteDuringDeletion
    \/ Return

IngestSpec == IngestInit /\ [][IngestNext]_vars

----------------------------------------------------------------------------
(* The chat endpoint: POST /chat and GET /search (src/agent/api.py),       *)
(* add_message and get_session_messages (src/agent/db_utils.py),           *)
(* ADASAgent.chat and the tool wrappers (src/agent/agent.py). One session; *)
(* each await of a handler is a step, so two handlers may interleave.      *)
(* Rows of messages are kept in insertion order, which is the order of     *)
(* created_at.                                                             *)

\* limit of get_session_messages in POST /chat
ContextFetchLimit == 20
\* conversation_context[-10:]
ContextWindow == 10
\* default of HybridSearchQuery.max_results
DefaultMaxResults == 10

\* numbers of messages the session holds when the run starts
HistoryLengths == { 0, 1, 2, 19, 20, 21 }

\* the session after n messages stored one call at a time
History(n) ==
    [ i \in 1..n |-> [ message_index |-> i,
                       role |-> IF i % 2 = 1 THEN "user" ELSE "assistant",
                       request |-> 0 ] ]

\* SELECT COALESCE(MAX(message_index), 0) + 1 FROM messages
NextIndex ==
    IF messages = << >> THEN 1
    ELSE 1 + (CHOOSE m \in { messages[i].message_index : i \in DOMAIN messages } :
                  \A i \in DOMAIN messages : messages[i].message_index <= m)

\* POST /chat, with the session of the request found: add_message starts
ChatStart(r) ==
    /\ requests[r].pc = "idle"
    /\ requests' = [ requests EXCEPT ![r] = [ pc |-> "read_index", role |-> "user" ] ]
    /\ UNCHANGED << documents, chunks, db_manager, pool, tools_db_manager,
                    graph_vars, pipeline, deletion, messages, embedding, response >>

\* add_message, first statement: the next index is read
ReadNextIndex(r) ==
    /\ requests[r].pc = "read_index"
    /\ requests' = [ requests EXCEPT ![r] =
                       [ pc |-> "insert", next_index |-> NextIndex ] @@ @ ]
    /\ UNCHANGED << documents, chunks, db_manager, pool, tools_db_manager,
                    graph_vars, pipeline, deletion, messages, embedding, response >>

\* what POST /chat returns, or the HTTPException it raises
ChatReturned(r, call, raised) ==
    [ op |-> "chat", request |-> r, raised |-> raised,
      own |-> call.own, context |-> call.context, reply |-> call.reply ]

\* add_message, second statement: the row is inserted with the index read.
\* unique_index: the table rejects an index the session already has; the
\* exception ends the handler with HTTP 500. After the user's message the
\* handler goes on, after the assistant's it returns.
InsertMessage(r, unique_index) ==
    /\ requests[r].pc = "insert"
    /\ LET call == requests[r]
           row == [ message_index |-> call.next_index, role |-> call.role,
                    request |-> r ]
           rejected == unique_index /\
                       \E i \in DOMAIN messages :
                           messages[i].message_index = call.next_index
       IN  IF rejected
           THEN /\ Idle
                /\ messages' = messages
                /\ requests' = [ requests EXCEPT ![r] = [ pc |-> "done" ] ]
                /\ response' = ChatReturned(r, [ own |-> 0, context |-> << >>,
                                                 reply |-> NULL ] @@ call, TRUE)
           ELSE /\ messages' = Append(messages, row)
                /\ IF call.role = "user"
                   THEN /\ requests' = [ requests EXCEPT ![r] =
                                           [ pc |-> "context",
                                             own |-> Len(messages) + 1 ] @@ call ]
                        /\ response' = response
                   ELSE /\ Idle
                        /\ requests' = [ requests EXCEPT ![r] = [ pc |-> "done" ] ]
                        /\ response' = ChatReturned(r, call, FALSE)
    /\ UNCHANGED << documents, chunks, db_manager, pool, tools_db_manager,
                    graph_vars, pipeline, deletion, embedding >>

\* get_session_messages(session_id, limit): ORDER BY created_at ASC LIMIT,
\* as the positions of the rows
SessionMessages(limit) ==
    [ i \in 1..(IF limit < Len(messages) THEN limit ELSE Len(messages)) |-> i ]

\* the last n elements of a list: list[-n:]
Last(list, n) ==
    IF Len(list) <= n THEN list ELSE SubSeq(list, Len(list) - n + 1, Len(list))

\* messages[:-1], then conversation_context[-10:]
ConversationContext(rows) ==
    Last(SubSeq(rows, 1, Len(rows) - 1), ContextWindow)

\* POST /chat: the conversation context is read and cut
BuildContext(r) ==
    /\ requests[r].pc = "context"
    /\ requests' = [ requests EXCEPT ![r] =
                       [ pc |-> "agent",
                         context |-> ConversationContext(SessionMessages(ContextFetchLimit)) ]
                       @@ @ ]
    /\ UNCHANGED << documents, chunks, db_manager, pool, tools_db_manager,
                    graph_vars, pipeline, deletion, messages, embedding, response >>

\* the tools registered with the agent
ToolNames == { "timeline_analysis", "dependency_mapping", "hybrid_search" }

\* ToolWrapper without its except block
ToolWrapperUnguarded(tool, tool_raises) ==
    IF tool_raises
    THEN [ kind |-> "raised", tool |-> tool ]
    ELSE [ kind |-> "dict", tool |-> tool, success |-> TRUE ]

\* a registered tool: the result dict of the tool, or the dict
\* {"error": ...} of the except block when anything inside raised
ToolWrapper(tool, tool_raises) ==
    IF tool_raises
    THEN [ kind |-> "dict", tool |-> tool, success |-> FALSE ]
    ELSE [ kind |-> "dict", tool |-> tool, success |-> TRUE ]

\* what agent.run does
RunOutcomes == { "answers", "raises", "no_text" }

\* ADASAgent.chat: a ChatResponse built from the run, or, when the run
\* (a tool's exception leaves it) or the construction of the response
\* (result.data is no text) raised, the apology ChatResponse of the except
\* block. tool_returns: what the wrappers called by the run returned.
AgentChat(run, tool_returns) ==
    IF run = "answers" /\ \A i \in DOMAIN tool_returns : tool_returns[i].kind = "dict"
    THEN [ kind |-> "ChatResponse", apology |-> FALSE, tools_used |-> tool_returns ]
    ELSE [ kind |-> "ChatResponse", apology |-> TRUE, tools_used |-> << >> ]

\* POST /chat: agent.chat(enhanced_request); add_message of the reply starts
CallAgent(r, run, tools, tool_raises) ==
    /\ requests[r].pc = "agent"
    /\ LET tool_returns == [ i \in DOMAIN tools |-> ToolWrapper(tools[i], tool_raises) ]
       IN  requests' = [ requests EXCEPT ![r] =
                           [ pc |-> "read_index", role |-> "assistant",
                             tool_returns |-> tool_returns,
                             reply |-> AgentChat(run, tool_returns) ] @@ @ ]
    /\ UNCHANGED << documents, chunks, db_manager, pool, tools_db_manager,
                    graph_vars, pipeline, deletion, messages, embedding, response >>

\* the parameters of GET /search
SearchCalls ==
    [ query : { << >>, << "A", "D", "A", "S", " ", "c", "a", "m", "e", "r", "a" >> },
      limit : 0..MaxResultsBound,
      content_type : { NULL, "ota_update" },
      vehicle_system : { NULL, "ADAS" } ]

\* HybridSearchQuery(query=query, limit=..., content_type=...,
\* vehicle_system=...): the model has no such fields and ignores them, so
\* max_results, content_types and vehicle_systems keep their defaults
SearchQuery(call) ==
    [ query |-> call.query,
      search_type |-> "hybrid",
      max_results |-> DefaultMaxResults,
      content_types |-> << >>,
      vehicle_systems |-> << >>,
      similarity_threshold |-> DefaultSimilarityThreshold ]

\* GET /search: the dict of hybrid_search is returned as it is
SearchDocuments(store_ok) ==
    /\ Idle
    /\ tools_db_manager' = IF InitializeRaises THEN tools_db_manager ELSE "manager"
    /\ \E call \in SearchCalls :
          \E returned \in HybridSearchReturns(SearchQuery(call), store_ok) :
              response' = [ op |-> "search_documents", call |-> call,
                            returned |-> returned ]
    /\ UNCHANGED << documents, chunks, db_manager, pool, graph_vars, service_vars >>

\* a running API process (lifespan done) over a store that holds files 1
\* and 3, and a session with some history
ChatInit ==
    /\ documents = { StoredDocument(1, 0), StoredDocument(3, 0) }
    /\ chunks = StoredChunks(1) \cup StoredChunks(3)
    /\ db_manager = "manager"
    /\ pool = "open"
    /\ tools_db_manager = "manager"
    /\ nodes = {}
    /\ edges = {}
    /\ graph_manager = "None"
    /\ driver = "absent"
    /\ pipeline = PipelineAtRest(0)
    /\ deletion = NoCall
    /\ \E n \in HistoryLengths : messages = History(n)
    /\ requests = [ r \in RequestIds |-> NoCall ]
    /\ embedding = NoCall
    /\ response = NoResponse

ChatNext ==
    \/ \E r \in RequestIds : ChatStart(r)
    \/ \E r \in RequestIds : ReadNextIndex(r)
    \/ \E r \in RequestIds, unique_index \in BOOLEAN : InsertMessage(r, unique_index)
    \/ \E r \in RequestIds : BuildContext(r)
    \/ \E r \in RequestIds, run \in RunOutcomes, tool \in ToolNames,
          tool_raises \in BOOLEAN :
          CallAgent(r, run, << tool >>, tool_raises)
    \/ Return

ChatSpec == ChatInit /\ [][ChatNext]_vars

\* GET /search reads and writes nothing of a chat: its calls are followed
\* on their own, over the same process
SearchNext ==
    \/ \E store_ok \in BOOLEAN : SearchDocuments(store_ok)
    \/ Return

SearchSpec == ChatInit /\ [][SearchNext]_vars

----------------------------------------------------------------------------
(* The embedding services (src/ingestion/embedding_service.py):            *)
(* _generate_batch_embeddings of OpenAIEmbeddingService (one provider call *)
(* for the batch) and of OllamaEmbeddingService (one provider call for     *)
(* each text). Each await is a step.                                       *)

\* texts of a batch
MaxTexts == 2
\* self.max_retries
MaxRetries == 3
\* self.retry_delay, in seconds
RetryDelay == 1

EmbeddingServices == { "openai", "ollama" }

\* how a call to the provider ends; "error" is any other exception, a
\* malformed answer included
ProviderOutcomes == { "ok", "rate_limit", "error" }

\* retry_delay * (2 ** attempt), for every attempt
WaitTimeFlat(attempt) == RetryDelay

\* retry_delay * (2 ** attempt)
WaitTime(attempt) == RetryDelay * 2^attempt

\* attempt < self.max_retries - 1
MayRetry(attempt) == attempt < MaxRetries - 1

\* what _generate_batch_embeddings returns (the number of embeddings) or
\* the exception it raises, with the provider calls and the waits it made
EmbeddingsReturned(call, returned, raised) ==
    [ op |-> "generate_batch_embeddings", service |-> call.service,
      texts |-> call.texts, returned |-> returned, raised |-> raised,
      outcomes |-> call.outcomes, waits |-> call.waits ]

\* _generate_batch_embeddings(texts) is called with a non-empty batch
GenerateBatchEmbeddings(service, texts) ==
    /\ Idle
    /\ embedding.pc = "idle"
    /\ embedding' = [ pc |-> "call", service |-> service, texts |-> texts,
                      text |-> 1, attempt |-> 0, embeddings |-> 0,
                      outcomes |-> << >>, waits |-> << >> ]
    /\ UNCHANGED << documents, chunks, db_manager, pool, tools_db_manager,
                    graph_vars, pipeline, deletion, messages, requests, response >>

\* the provider call of the current attempt ends: embeddings.create for
\* the batch, or client.post for the current text
CallProvider(outcome) ==
    /\ embedding.pc = "call"
    /\ LET call == [ embedding EXCEPT !.outcomes = Append(@, outcome) ]
           service_raises == call.service = "ollama" \/ outcome = "error"
       IN  IF outcome = "ok" /\ call.service = "openai"
           THEN /\ Idle
                /\ embedding' = NoCall
                /\ response' = EmbeddingsReturned(call, call.texts, "none")
           ELSE IF outcome = "ok" /\ call.text < call.texts
           THEN \* break: the next text starts with attempt 0
                /\ embedding' = [ call EXCEPT !.text = @ + 1, !.attempt = 0,
                                              !.embeddings = @ + 1 ]
                /\ response' = response
           ELSE IF outcome = "ok"
           THEN /\ Idle
                /\ embedding' = NoCall
                /\ response' = EmbeddingsReturned(call, call.embeddings + 1, "none")
           ELSE IF MayRetry(call.attempt)
           THEN /\ embedding' = [ call EXCEPT !.pc = "sleep",
                                              !.waits = Append(@, WaitTime(call.attempt)) ]
                /\ response' = response
           ELSE /\ Idle
                /\ embedding' = NoCall
                /\ response' = EmbeddingsReturned(call, NULL,
                                   IF service_raises THEN "EmbeddingServiceError"
                                   ELSE "RateLimitError")
    /\ UNCHANGED << documents, chunks, db_manager, pool, tools_db_manager,
                    graph_vars, pipeline, deletion, messages, requests >>

\* asyncio.sleep(wait_time) is over: the next attempt, or, when range() is
\* exhausted, the end of the function body (OpenAI: None is returned;
\* Ollama: the next text)
Sleep ==
    /\ embedding.pc = "sleep"
    /\ LET call == [ embedding EXCEPT !.attempt = @ + 1 ]
       IN  IF call.attempt < MaxRetries
           THEN /\ embedding' = [ call EXCEPT !.pc = "call" ]
                /\ response' = response
           ELSE IF call.service = "ollama" /\ call.text < call.texts
           THEN /\ embedding' = [ call EXCEPT !.pc = "call", !.text = @ + 1,
                                              !.attempt = 0 ]
                /\ response' = response
           ELSE /\ Idle
                /\ embedding' = NoCall
                /\ response' = EmbeddingsReturned(call,
                                   IF call.service = "ollama" THEN call.embeddings
                                   ELSE NULL, "none")
    /\ UNCHANGED << documents, chunks, db_manager, pool, tools_db_manager,
                    graph_vars, pipeline, deletion, messages, requests >>

EmbedInit == Init

\* a step of a call in progress
EmbedStep ==
    \/ \E outcome \in ProviderOutcomes : CallProvider(outcome)
    \/ Sleep

EmbedNext ==
    \/ \E service \in EmbeddingServices, texts \in 1..MaxTexts :
          GenerateBatchEmbeddings(service, texts)
    \/ EmbedStep
    \/ Return

EmbedSpec == EmbedInit /\ [][EmbedNext]_vars

\* the provider's client answers or times out, and a sleep ends
EmbedFairSpec == EmbedSpec /\ WF_vars(EmbedStep)

----------------------------------------------------------------------------
(* Properties of hybrid_search                                             *)

IsSearchResponse == response.op = "hybrid_search"
IsError == IsSearchResponse /\ "error" \in DOMAIN response
IsSuccess == IsSearchResponse /\ "error" \notin DOMAIN response

Range(seq) == { seq[i] : i \in DOMAIN seq }
Min(a, b) == IF a < b THEN a ELSE b

\* the joined store row a result was mapped from
RowOf(result) == CHOOSE row \in JoinRows : row.c.id = result.chunk_id

\* the lower-cased text contains t; a NULL text contains nothing
LowerContains(text, t) == ~IsNullText(text) /\ Contains(Lower(text), t)

\* the term matches the result in one of the two fields, by containment
TermInResult(result, t) ==
    \/ LowerContains(RowOf(result).c.content, t)
    \/ LowerContains(RowOf(result).d.title, t)

\* the term holds a character LIKE gives a meaning to
HasLikeWildcard(t) == \E i \in DOMAIN t : t[i] \in { "%", "_", "\\" }

\* C1 as stated: every result of a query with surviving terms matches
\* every surviving term, in the lower-cased content or the lower-cased
\* title (AND across terms, OR across the two fields).
C1_EveryTermMatches ==
    IsSuccess /\ response.summary.search_terms # << >> =>
        \A i \in DOMAIN response.results :
            \A t \in Range(response.summary.search_terms) :
                TermInResult(response.results[i], t)

\* C1 as amended: every result of a query with surviving terms matches at
\* least one surviving term (OR across terms, OR across the two fields):
\* the lower-cased content or title contains the term, or, for a term
\* holding a LIKE wildcard, matches the pattern %term%.
C1_SomeTermMatches ==
    IsSuccess /\ response.summary.search_terms # << >> =>
        \A i \in DOMAIN response.results :
            \E t \in Range(response.summary.search_terms) :
                IF HasLikeWildcard(t)
                THEN \/ Like(LowerSql(RowOf(response.results[i]).c.content), Pattern(t))
                     \/ Like(LowerSql(RowOf(response.results[i]).d.title), Pattern(t))
                ELSE TermInResult(response.results[i], t)

\* C1 witness: a query with two surviving terms returned a result that
\* matches one of them and not the other
C1_Witness ==
    /\ IsSuccess
    /\ Len(response.summary.search_terms) = 2
    /\ \E i \in DOMAIN response.results :
          /\ TermInResult(response.results[i], response.summary.search_terms[2])
          /\ ~TermInResult(response.results[i], response.summary.search_terms[1])

\* the condition C2 states for a token
C2_Kept(t) ==
    /\ t \in important_terms \/ t \notin stop_words \/ Len(t) > 3
    /\ Len(t) > 1

\* the lower-cased whitespace-separated tokens of a text, punctuation stripped
C2_Tokens(text) ==
    LET tokens == Split(Lower(text))
    IN  [ i \in DOMAIN tokens |-> Strip(tokens[i]) ]

C3_NoStopWordInTerms ==
    IsSuccess =>
        \A t \in Range(response.summary.search_terms) :
            t \notin (stop_words \ important_terms)

\* the content-type and vehicle-system filters of a request, by themselves
C4_PassesFilters(row, query) ==
    /\ query.content_types # << >> => row.d.content_type \in Range(query.content_types)
    /\ query.vehicle_systems # << >> => row.d.vehicle_system \in Range(query.vehicle_systems)

\* C4: when no term survives, a call the store answers returns no error,
\* and the results are max_results of the rows that pass the filters (all
\* of them when there are fewer), whatever their content.
C4_FailOpen ==
    /\ IsSuccess /\ response.summary.search_terms = << >> =>
          LET query == response.query_parameters
              passing == { row \in JoinRows : C4_PassesFilters(row, query) }
          IN  /\ Len(response.results) = Min(query.max_results, Cardinality(passing))
              /\ \A i \in DOMAIN response.results :
                     RowOf(response.results[i]) \in passing
    /\ Idle /\ ~InitializeRaises /\ pool = "open" =>
          \A query \in HybridSearchQueries :
              SearchTerms(query.query) = << >> /\ query.max_results >= 0 =>
                  \A returned \in HybridSearchReturns(query, TRUE) :
                      "error" \notin DOMAIN returned

\* C4 witness: a query of dropped tokens only returned a chunk that holds
\* none of its words
C4_Witness ==
    /\ IsSuccess
    /\ response.query_parameters.query # << >>
    /\ response.summary.search_terms = << >>
    /\ Len(response.results) >= 2

\* the title of the result's document contains the word, lower-cased
C5_TitleHas(result, word) == LowerContains(RowOf(result).d.title, word)

\* result a may not come after result b: b does not sort strictly first
C5_InOrder(a, b) ==
    LET camera == << "c", "a", "m", "e", "r", "a" >>
        adas == << "a", "d", "a", "s" >>
    IN  ~ \/ C5_TitleHas(b, camera) /\ ~C5_TitleHas(a, camera)
          \/ /\ C5_TitleHas(b, camera) <=> C5_TitleHas(a, camera)
             /\ C5_TitleHas(b, adas) /\ ~C5_TitleHas(a, adas)
          \/ /\ C5_TitleHas(b, camera) <=> C5_TitleHas(a, camera)
             /\ C5_TitleHas(b, adas) <=> C5_TitleHas(a, adas)
             /\ RowOf(b).d.created_at > RowOf(a).d.created_at

\* C5: the results are in the order camera-titled first, then adas-titled
\* first, then newest document first, and they are a prefix of the
\* candidates in that order: no candidate left out sorts before a result.
C5_ThreeKeyOrder ==
    IsSuccess =>
        LET query == response.query_parameters
            results == response.results
            candidates == { MapRow(row) : row \in
                              { r \in JoinRows :
                                  WhereClause(r, query, response.summary.search_terms) } }
        IN  /\ \A i, j \in DOMAIN results : i < j => C5_InOrder(results[i], results[j])
            /\ \A c \in candidates \ Range(results) :
                   \A i \in DOMAIN results : C5_InOrder(results[i], c)
            /\ Len(results) = Min(query.max_results, Cardinality(candidates))

\* C5 witness: a camera-titled, an adas-titled and two other chunks match;
\* the results are the first two and then the newer of the others
C5_Witness ==
    /\ IsSuccess
    /\ Len(response.results) = 3
    /\ C5_TitleHas(response.results[1], << "c", "a", "m", "e", "r", "a" >>)
    /\ C5_TitleHas(response.results[2], << "a", "d", "a", "s" >>)
    /\ ~C5_TitleHas(response.results[3], << "a", "d", "a", "s" >>)
    /\ \E row \in JoinRows :
          /\ WhereClause(row, response.query_parameters, response.summary.search_terms)
          /\ row.d.created_at < RowOf(response.results[3]).d.created_at

\* C6: the result list is never longer than max_results (an error carries
\* no result at all).
C6_AtMostMaxResults ==
    /\ IsSuccess => Len(response.results) <= response.query_parameters.max_results
    /\ IsError => Len(response.results) = 0

\* C6 witness: more rows matched than max_results and the list is full
C6_Witness ==
    /\ IsSuccess
    /\ Len(response.results) = response.query_parameters.max_results
    /\ Cardinality({ row \in JoinRows :
                       WhereClause(row, response.query_parameters,
                                   response.summary.search_terms) })
           > response.query_parameters.max_results
    /\ response.query_parameters.max_results > 0

\* the store query of a call cannot succeed
C7_QueryFails(query, store_ok) ==
    \/ db_manager = "None" /\ tools_db_manager = "None"
    \/ pool # "open"
    \/ ~store_ok
    \/ query.max_results < 0

\* C7: when the store query fails the call returns a dict with an error
\* text, no results and an empty summary; and no returned dict ever has
\* an error together with results or a summary.
C7_ErrorIsStructured ==
    /\ IsError =>
          /\ response.error[2] # ""
          /\ response.results = << >>
          /\ response.summary = << >>
    /\ Idle =>
          \A query \in HybridSearchQueries, store_ok \in BOOLEAN :
              C7_QueryFails(query, store_ok) =>
                  \A returned \in HybridSearchReturns(query, store_ok) :
                      /\ "error" \in DOMAIN returned
                      /\ returned.results = << >>
                      /\ returned.summary = << >>

\* C7 witness: the store did not answer a call made with an open pool
C7_Witness ==
    /\ IsError
    /\ pool = "open"
    /\ response.error[2] = "connection failed"

\* C8 as stated: a request with a content-type tag outside the
\* enumeration or with max_results <= 0 gets a structured error, so a
\* call that returned results had neither.
C8_MalformedFilterRejected ==
    IsSuccess =>
        /\ response.query_parameters.max_results > 0
        /\ Range(response.query_parameters.content_types) \subseteq ContentTypes

\* C9: no chunk identifier appears twice in the result list.
C9_NoDuplicateChunk ==
    IsSuccess =>
        \A i, j \in DOMAIN response.results :
            response.results[i].chunk_id = response.results[j].chunk_id => i = j

\* C9 witness: two chunks of one document are returned from a store that
\* holds several documents
C9_Witness ==
    /\ IsSuccess
    /\ Cardinality(documents) >= 2
    /\ \E i, j \in DOMAIN response.results :
          /\ i # j
          /\ response.results[i].document_id = response.results[j].document_id

\* C10 as stated: in hybrid mode the vector hits are in the result list,
\* each once, with the higher of the lexical score and the similarity.
\* (The request carries no embedding: the claim is read for any.)
C10_VectorHitsMerged ==
    /\ IsSuccess
    /\ response.query_parameters.search_type = "hybrid"
    /\ response.query_parameters.content_types = << >>
    /\ response.query_parameters.vehicle_systems = << >>
    => \E query_embedding \in QueryEmbeddings :
          \E hits \in VectorSearchReturns(query_embedding,
                                          response.query_parameters.max_results,
                                          NULL, NULL) :
             \A h \in DOMAIN hits :
                /\ Cardinality({ i \in DOMAIN response.results :
                                   response.results[i].chunk_id = hits[h].chunk_id }) = 1
                /\ \A i \in DOMAIN response.results :
                       response.results[i].chunk_id = hits[h].chunk_id =>
                           response.results[i].score =
                               IF hits[h].similarity_score > RelevanceScore
                               THEN hits[h].similarity_score ELSE RelevanceScore

----------------------------------------------------------------------------
(* Properties of the result mapping and of vector_search                   *)

IsVectorResponse == response.op = "vector_search"
IsVectorReturned == IsVectorResponse /\ "returned" \in DOMAIN response
IsVectorRaised == IsVectorResponse /\ "raised" \in DOMAIN response

\* the stored chunk a result was mapped from
ChunkOf(result) == CHOOSE c \in chunks : c.id = result.chunk_id

\* the result's content is the stored content, cut to the preview cap
\* plus the ellipsis when the stored content is longer than the cap
ContentIsPreview(result) ==
    LET stored == ChunkOf(result).content
    IN  /\ Len(result.content) <= PreviewCap + 3
        /\ Len(stored) > PreviewCap =>
               result.content = SubSeq(stored, 1, PreviewCap) \o << ".", ".", "." >>
        /\ Len(stored) <= PreviewCap => result.content = stored

\* C11 as stated: on both paths the content of every result is at most
\* 500 characters plus the 3-character ellipsis; a longer stored content
\* is cut to its first 500 characters followed by "...", a shorter one is
\* returned unchanged.
C11_ContentWithinCap ==
    /\ IsSuccess =>
          \A i \in DOMAIN response.results : ContentIsPreview(response.results[i])
    /\ IsVectorReturned =>
          \A i \in DOMAIN response.returned : ContentIsPreview(response.returned[i])

\* the store holds a row that cannot be mapped
HasMalformedRow == \E row \in JoinRows : MapRowRaises(row)

\* C12 as stated: a row that cannot be mapped is skipped and the other
\* rows of the batch are returned in order, on both paths: a lexical
\* search the store answers returns the mappable rows of one batch, and a
\* vector search never fails on account of a row.
C12_MalformedRowSkipped ==
    /\ IsSuccess =>
          \E rows \in FetchAll(response.query_parameters,
                                response.summary.search_terms) :
             LET Maps(row) == ~MapRowRaises(row)
                 kept == SelectSeq(rows, Maps)
             IN  /\ Len(response.results) = Len(kept)
                 /\ \A i \in DOMAIN kept :
                        response.results[i].chunk_id = kept[i].c.id
    /\ IsVectorRaised => response.raised # "validation error"

\* C13: the list vector_search returns is non-increasing in similarity
\* score by position, holds only chunks that have an embedding, and has
\* at most `limit` entries.
C13_VectorOrdered ==
    IsVectorReturned =>
        /\ \A i, j \in DOMAIN response.returned :
               i < j => response.returned[i].similarity_score >=
                            response.returned[j].similarity_score
        /\ \A i \in DOMAIN response.returned :
               ChunkOf(response.returned[i]).embedding # << >>
        /\ Len(response.returned) <= response.call.limit

\* a returned list cut by the limit, with a strict drop in similarity,
\* while a chunk without embedding passes the call's filters
C13_Witness ==
    /\ IsVectorReturned
    /\ Len(response.returned) = response.call.limit
    /\ \E i, j \in DOMAIN response.returned :
          i < j /\ response.returned[i].similarity_score >
                       response.returned[j].similarity_score
    /\ response.call.content_type = NULL
    /\ response.call.vehicle_system = NULL
    /\ \E c \in chunks : c.embedding = << >>
    /\ Cardinality({ c \in chunks : c.embedding # << >> }) > response.call.limit

\* C20 as stated: the same search against the same store contents returns
\* the same ordered list: the list returned is the only one the call can
\* return in this state.
C20_RepeatableOrder ==
    /\ IsSuccess =>
          \A other \in HybridSearchReturns(response.query_parameters, TRUE) :
              other.results = response.results
    /\ IsVectorReturned =>
          \A other \in VectorSearchOutcomes(response.call, TRUE) :
              other = response

----------------------------------------------------------------------------
(* Properties of the graph reads                                           *)

GraphReads ==
    { "find_related_entities", "find_component_dependencies",
      "find_system_components", "search_by_pattern" }

IsGraphRead == response.op \in GraphReads
IsRelatedAnswer ==
    /\ response.op = "find_related_entities"
    /\ "returned" \in DOMAIN response
    /\ response.answered

\* the nodes one relationship away, in either direction
Neighbours(ids) ==
    { e.to : e \in { x \in edges : x.from \in ids } } \cup
    { e.from : e \in { x \in edges : x.to \in ids } }

RECURSIVE Within(_, _)
\* the nodes at most k relationships away from the given ones
Within(ids, k) ==
    IF k = 0 THEN ids
    ELSE LET nearer == Within(ids, k - 1) IN nearer \cup Neighbours(nearer)

\* the entities of the name a call starts from
StartIds(call) == { n.id : n \in Match("Entity", call.entity_name) }

\* the hop count of the shortest undirected path from the start to a node
\* named name
HopDistance(call, name) ==
    CHOOSE k \in 0..Cardinality(nodes) :
        /\ \E id \in Within(StartIds(call), k) : NodeById(id).name = name
        /\ \A j \in 0..(k - 1) :
              \A id \in Within(StartIds(call), j) : NodeById(id).name # name

\* a record's entity is at most max_depth hops from the start
C14_WithinDepth ==
    IsRelatedAnswer /\ response.call.max_depth >= 1 =>
        \A i \in DOMAIN response.returned :
            \E id \in Within(StartIds(response.call), response.call.max_depth) :
                NodeById(id).name = response.returned[i].name

\* C14 as stated: for d >= 1, find_related_entities(X, max_depth=d)
\* returns no entity whose shortest undirected path to X is longer than d
\* hops, and never X itself.
C14_WithinDepthNotSelf ==
    /\ C14_WithinDepth
    /\ IsRelatedAnswer /\ response.call.max_depth >= 1 =>
          \A i \in DOMAIN response.returned :
              response.returned[i].name # response.call.entity_name

\* C15 as stated: each entity name appears at most once in the output, and
\* with the minimum hop count from the start entity as its distance.
C15_OncePerNameAtMinDistance ==
    IsRelatedAnswer =>
        /\ \A i, j \in DOMAIN response.returned :
               i # j => response.returned[i].name # response.returned[j].name
        /\ \A i \in DOMAIN response.returned :
               response.returned[i].distance =
                   HopDistance(response.call, response.returned[i].name)

\* C16: the list find_related_entities returns is sorted by distance
\* ascending, then name ascending; it has at most 100 records; every
\* distance lies in 1..max_depth; and when relationship types are given
\* (a non-empty list) every type of every relationship_path is one of them.
C16_RelatedSortedCapped ==
    IsRelatedAnswer =>
        /\ \A i, j \in DOMAIN response.returned :
               i < j =>
                   \/ response.returned[i].distance < response.returned[j].distance
                   \/ /\ response.returned[i].distance = response.returned[j].distance
                      /\ ~KeyLess(NameKey(response.returned[j].name),
                                  NameKey(response.returned[i].name))
        /\ Len(response.returned) <= RelatedLimit
        /\ \A i \in DOMAIN response.returned :
               response.returned[i].distance \in 1..response.call.max_depth
        /\ response.call.relationship_types # << >> =>
               \A i \in DOMAIN response.returned :
                   Range(response.returned[i].relationship_path) \subseteq
                       Range(response.call.relationship_types)

\* the cap cuts a list that holds several distances and names
C16_Witness ==
    /\ IsRelatedAnswer
    /\ Len(response.returned) = RelatedLimit
    /\ \E i, j \in DOMAIN response.returned :
          /\ response.returned[i].distance < response.returned[j].distance
          /\ response.returned[i].name # response.returned[j].name

\* the empty shape of a graph read
EmptyShape(op) ==
    IF op = "find_component_dependencies" THEN NoDependencies ELSE << >>

\* C17: with the graph store unavailable (no driver, a closed driver, a
\* store that does not answer) every graph read returns its empty shape
\* and none raises; a hybrid_search made while the driver is not open
\* returns what the document store gives: with no term and no filter,
\* max_results rows or all the rows there are.
C17_GraphFailsSoft ==
    /\ IsGraphRead =>
          /\ "returned" \in DOMAIN response
          /\ ~response.answered => response.returned = EmptyShape(response.op)
          /\ driver # "open" => ~response.answered
    /\ IsSuccess /\ driver # "open"
          /\ response.summary.search_terms = << >>
          /\ response.query_parameters.content_types = << >>
          /\ response.query_parameters.vehicle_systems = << >> =>
             Len(response.results) =
                 Min(response.query_parameters.max_results, Cardinality(chunks))

\* a dependency lookup made on a manager whose driver was never built
C17_Witness ==
    /\ response.op = "find_component_dependencies"
    /\ driver = "none"
    /\ edges # {}
    /\ response.returned = NoDependencies

\* the names of a list, each once
ListsEach(list, names) ==
    Range(list) = names /\ Len(list) = Cardinality(names)

\* the nodes of the component a dependency lookup is about
ComponentIds(name) == { n.id : n \in Match("Component", name) }

\* the names of the nodes at the far end of the component's relationships
\* of a type; outgoing: from the component
FarEnds(name, type, outgoing) ==
    IF outgoing
    THEN { NodeById(e.to) : e \in { x \in edges :
               x.type = type /\ x.from \in ComponentIds(name) } }
    ELSE { NodeById(e.from) : e \in { x \in edges :
               x.type = type /\ x.to \in ComponentIds(name) } }

IsDependencyAnswer ==
    /\ response.op = "find_component_dependencies"
    /\ "returned" \in DOMAIN response
    /\ response.answered

\* C18 as stated: dependencies and required_by are the components at the
\* far end of the outgoing and incoming DEPENDS_ON relationships of C,
\* systems the targets of C's PART_OF relationships and suppliers the
\* targets of its SUPPLIED_BY relationships, each name once.
C18_ListsByEdgeType ==
    IsDependencyAnswer =>
        /\ ListsEach(response.returned.dependencies,
                     { n.name : n \in { m \in FarEnds(response.call, "DEPENDS_ON", TRUE) :
                                          "Component" \in m.labels } })
        /\ ListsEach(response.returned.required_by,
                     { n.name : n \in { m \in FarEnds(response.call, "DEPENDS_ON", FALSE) :
                                          "Component" \in m.labels } })
        /\ ListsEach(response.returned.systems,
                     { n.name : n \in FarEnds(response.call, "PART_OF", TRUE) })
        /\ ListsEach(response.returned.suppliers,
                     { n.name : n \in FarEnds(response.call, "SUPPLIED_BY", TRUE) })

\* C18 amended: systems are the System nodes among the targets of C's
\* PART_OF relationships and suppliers the Supplier nodes among the
\* targets of its SUPPLIED_BY relationships; the rest as stated, and four
\* empty lists when C has no such relationship or no Component is named C.
C18_ListsByEdgeTypeAndLabel ==
    /\ IsDependencyAnswer =>
          /\ ListsEach(response.returned.dependencies,
                       { n.name : n \in { m \in FarEnds(response.call, "DEPENDS_ON", TRUE) :
                                            "Component" \in m.labels } })
          /\ ListsEach(response.returned.required_by,
                       { n.name : n \in { m \in FarEnds(response.call, "DEPENDS_ON", FALSE) :
                                            "Component" \in m.labels } })
          /\ ListsEach(response.returned.systems,
                       { n.name : n \in { m \in FarEnds(response.call, "PART_OF", TRUE) :
                                            "System" \in m.labels } })
          /\ ListsEach(response.returned.suppliers,
                       { n.name : n \in { m \in FarEnds(response.call, "SUPPLIED_BY", TRUE) :
                                            "Supplier" \in m.labels } })
    /\ IsDependencyAnswer /\ ComponentIds(response.call) = {} =>
          response.returned = NoDependencies

\* the lookup of the scenario: one dependency, one dependent, a system and
\* a supplier, next to a PART_OF relationship that ends at a component
C18_Witness ==
    /\ IsDependencyAnswer
    /\ Len(response.returned.dependencies) = 1
    /\ Len(response.returned.required_by) = 1
    /\ response.returned.dependencies # response.returned.required_by
    /\ Len(response.returned.systems) = 1
    /\ Len(response.returned.suppliers) = 1
    /\ Relationship(1, "PART_OF", 2) \in edges

\* the operations that search
SearchOps == GraphReads \cup { "hybrid_search", "vector_search" }

\* C19: a search, returning or failing, leaves the documents, the chunks
\* and the graph's nodes and relationships as they were.
C19_SearchIsReadOnly ==
    [][ response'.op \in SearchOps =>
            UNCHANGED << documents, chunks, nodes, edges >> ]_vars

\* an answered search for a name no node has, over stores that hold rows
C19_Witness ==
    /\ IsRelatedAnswer
    /\ StartIds(response.call) = {}
    /\ response.returned = << >>
    /\ documents # {} /\ chunks # {} /\ edges # {}

----------------------------------------------------------------------------
(* Properties of the ingestion side                                        *)

IsProcessFileReturn == response.op = "process_file"
IsDeleteReturn == response.op = "delete_document"

\* C22 as stated: after any sequence of ingestions and deletions (no call
\* in progress), every stored document's chunk_count is the number of
\* stored chunks that reference it.
C22_ChunkCountMatches ==
    pipeline.pc = "idle" /\ deletion.pc = "idle" =>
        \A d \in documents : d.chunk_count = Cardinality(ChunksOf(d.id))

\* C23 as stated: once process_file has returned, no document that call
\* created is left in status pending or processing.
C23_NoDocumentLeftProcessing ==
    IsProcessFileReturn =>
        \A d \in documents :
            d.id \in response.created =>
                d.processing_status \in { "completed", "failed" }

\* C24: in every state each chunk references a stored document, also
\* between the two statements of delete_document and when the second one
\* fails; and when delete_document(d) has returned True neither d nor a
\* chunk that references d is stored.
C24_DeleteTakesChunks ==
    /\ \A c \in chunks : \E d \in documents : d.id = c.document_id
    /\ IsDeleteReturn /\ response.returned =>
          /\ \A d \in documents : d.id # response.document_id
          /\ ChunksOf(response.document_id) = {}

\* a deletion that returned True while other documents and chunks stay
C24_Witness ==
    /\ IsDeleteReturn
    /\ response.returned
    /\ chunks # {}

\* C29 as stated: get_db_manager returns a manager only while the pool has
\* been initialised successfully and is not closed; otherwise it raises.
C29_ManagerOnlyWhileOpen ==
    response.op = "get_db_manager" /\ ~response.raised => response.pool = "open"

\* C30 as stated: when process_file returns False the document store is as
\* it was before the call.
C30_FailureLeavesStore ==
    IsProcessFileReturn /\ ~response.returned =>
        /\ documents = response.before.documents
        /\ chunks = response.before.chunks

----------------------------------------------------------------------------
(* Properties of the API                                                   *)

\* the handlers that have called the agent
C21_Answered == { r \in RequestIds : "reply" \in DOMAIN requests[r] }

\* C21: every registered tool wrapper returns a dict, also when the tool
\* inside raised, and ADASAgent.chat returns a ChatResponse for every
\* request, also when the run or a tool failed.
C21_AgentAlwaysAnswers ==
    \A r \in C21_Answered :
        /\ \A i \in DOMAIN requests[r].tool_returns :
               requests[r].tool_returns[i].kind = "dict"
        /\ requests[r].reply.kind = "ChatResponse"

\* a run that raised after its tool had failed: the wrapper gave the error
\* dict and chat the apology
C21_Witness ==
    \E r \in C21_Answered :
        /\ requests[r].reply.apology
        /\ \E i \in DOMAIN requests[r].tool_returns :
               ~requests[r].tool_returns[i].success

\* C25 as stated: the context of a chat turn is the last 10 (or fewer) of
\* the messages stored before this turn's message, oldest first, and the
\* message this turn stored is not among them.
C25_ContextIsRecentEarlier ==
    response.op = "chat" /\ ~response.raised =>
        response.context =
            Last([ i \in 1..(response.own - 1) |-> i ], ContextWindow)

\* C26 as stated: GET /search with limit = n returns at most n results, and
\* with content_type or vehicle_system given every result has that value.
C26_SearchHonoursParameters ==
    response.op = "search_documents" =>
        LET call == response.call
            results == response.returned.results
        IN  /\ Len(results) <= call.limit
            /\ \A i \in DOMAIN results :
                  /\ call.content_type # NULL =>
                         results[i].content_type = call.content_type
                  /\ call.vehicle_system # NULL =>
                         results[i].vehicle_system = call.vehicle_system

\* C28 as stated: the message_index values of a session are 1, 2, 3, ... in
\* insertion order, also when add_message calls interleave.
C28_IndexesIncrease ==
    \A i \in DOMAIN messages : messages[i].message_index = i

----------------------------------------------------------------------------
(* Properties of the embedding services                                    *)

C27_Failed(outcome) == outcome \in { "rate_limit", "error" }

\* what C27 says of a finished call of the OpenAI service
C27_Finished ==
    response.op = "generate_batch_embeddings" /\ response.service = "openai" =>
        LET outcomes == response.outcomes
            calls == Len(outcomes)
        IN  /\ calls \in 1..MaxRetries
            /\ \A i \in 1..(calls - 1) : C27_Failed(outcomes[i])
            /\ response.waits = [ i \in 1..(calls - 1) |-> RetryDelay * 2^(i - 1) ]
            /\ IF outcomes[calls] = "ok"
               THEN response.raised = "none" /\ response.returned = response.texts
               ELSE /\ calls = MaxRetries
                    /\ response.returned = NULL
                    /\ response.raised = IF outcomes[calls] = "rate_limit"
                                         THEN "RateLimitError"
                                         ELSE "EmbeddingServiceError"

\* C27: a call of OpenAIEmbeddingService._generate_batch_embeddings ends,
\* after at most max_retries provider calls: with the embeddings of the
\* first call that succeeded, or, when every call failed, with
\* RateLimitError (last failure a rate limit) or EmbeddingServiceError and
\* no value; before the retry after attempt k it waited retry_delay * 2^k,
\* and it did not wait after the last attempt.
C27_RetriesBounded ==
    /\ [](C27_Finished /\
          (embedding.pc # "idle" /\ embedding.service = "openai" =>
               Len(embedding.outcomes) <= MaxRetries))
    /\ (embedding.pc # "idle") ~> (response.op = "generate_batch_embeddings")

\* three failed calls, the last one a rate limit, after waits of 1 and 2
C27_Witness ==
    /\ response.op = "generate_batch_embeddings"
    /\ response.service = "openai"
    /\ response.raised = "RateLimitError"
    /\ response.outcomes = << "error", "rate_limit", "rate_limit" >>
    /\ response.waits = << 1, 2 >>

====
